---- MODULE Spec2Model ----
(***************************************************************************)
(* Model of the background task engine of dalle2_android:                  *)
(*   - BaseWorker (src/workers/base_worker.py): priority queue, lifecycle, *)
(*     worker loop with error cooldown;                                    *)
(*   - APIRequestWorker (src/workers/api_request.py): retry / re-queue and *)
(*     its token-bucket RateLimiter;                                       *)
(*   - TokenBucket and CircuitBreaker (src/services/rate_limiter.py);      *)
(*   - WorkerManager (src/workers/worker_manager.py): the recovery of     *)
(*     _handle_state_change, start_all, stop_all and backup_and_export;    *)
(*   - BaseWorkerEnhanced (src/workers/base_worker_enhanced.py): dispatch  *)
(*     loop, thread pool, task timeout and completion callbacks;           *)
(*   - SettingsSyncWorker (src/workers/settings_sync.py): the callbacks of *)
(*     the sync tasks;                                                     *)
(*   - KivyWorkerBridge (src/workers/kivy_worker_bridge.py): the queue of  *)
(*     UI updates.                                                         *)
(* Time is an integer number of seconds read from the variable now, which  *)
(* stands for time.time().                                                 *)
(***************************************************************************)
EXTENDS Integers, Sequences, FiniteSets, TLC

(***************************************************************************)
(* Bounds of the model.                                                    *)
(***************************************************************************)
NTasks == 4
NSubmitted == 3
MaxNow == 5
MaxRetries == 2
MaxBackoffRetries == 4
max_history == 3
MaxRecords == 5
MaxUpdates == 11
max_queue_size == 2
api_max_queue_size == 1
NRequests == 2
max_errors == 2
error_cooldown == 2
NThreads == 2
NKeys == 2
max_workers == 1
MaxCalls == 6
recovery_timeout == 2
MaxBucketNow == 25
MaxBucketCalls == 7
MaxCost == 2

(***************************************************************************)
(* Program constants.                                                      *)
(***************************************************************************)
LOW == 0
NORMAL == 1
HIGH == 2
CRITICAL == 3
retry_delays == <<1, 2, 5>>
max_updates_per_frame == 10
RL_RATE == 50
RL_PER == 60
failure_threshold == 3
TB_CAPACITY == 5
TB_REFILL_NUM == 5
TB_REFILL_DEN == 60

Tasks == 1..NTasks
Submitted == 1..NSubmitted
Requests == 1..NRequests
Priorities == {LOW, NORMAL, HIGH, CRITICAL}
NoTask == 0
Threads == 1..NThreads
NoThread == 0
NoSnapshot == [state |-> "none", queue_size |-> 0, completed_tasks |-> 0,
               failed_tasks |-> 0, error_count |-> 0]

\* SyncTask.callback: None, a callback of the caller, or the closure
\* on_backup_complete of backup_and_export with the callback and the
\* include_images it holds.
NoCallback == [kind |-> "none", callback |-> FALSE, include_images |-> FALSE]

\* WorkerManager.workers, in the order _initialize_workers fills it.
worker_names == <<"image_processor", "settings_sync", "api_request">>

VARIABLES
    now,              \* time.time()
    state,            \* BaseWorker.state
    queue,            \* BaseWorker.queue: set of entries (priority * -1, time, task)
    stop_event,       \* BaseWorker._stop_event
    pause_event,      \* BaseWorker._pause_event
    thread,           \* BaseWorker.thread: "none", "alive", "dead"
    wpc,              \* position of the worker thread in _run
    cur,              \* the task _run has dequeued and not yet finished
    maxsize,          \* queue.maxsize
    wake,             \* the time at which the worker thread's current sleep ends
    error_count,
    last_error_time,
    completed_tasks,
    failed_tasks,
    pcStart,          \* position of a caller inside start()
    startReturned,    \* start() has returned True
    pcStop,           \* position of a caller inside stop(wait=True)
    stopAfterStart,   \* start() had returned when that stop() was called
    stopRet,          \* how stop(wait=True) returned: "no", "joined", "timeout", "nothread"
    added,            \* per task: result of the caller's add_task ("no" = not called)
    addAfterGet,      \* an add_task call was made after the first dequeue
    execCount,        \* per task: number of executions of its operation
    retry_count,      \* APIRequest.retry_count
    max_retries,      \* APIRequest.max_retries
    req_n,            \* APIRequest.n
    cbSucc,           \* per request: callback invocations with a success result
    cbFail,           \* per request: callback invocations with success = False
    histFail,         \* per request: failure records in request_history
    requeueFull,      \* per request: a retry re-queue found the queue full
    lastOutcome,      \* per request: how its last attempt ended ("none" before it)
    reqPrio,          \* per request: the priority its submitter gave to add_task
    rl_rate,          \* RateLimiter.rate
    rl_per,           \* RateLimiter.per
    rl_tokens,        \* RateLimiter.tokens, multiplied by per
    rl_last_update,   \* RateLimiter.last_update
    rl_calls,         \* number of acquire calls made by callers of the limiter
    rl_cost,          \* the argument of the last acquire call
    rl_ret,           \* the wait the last acquire call returned, multiplied by rate
    rl_immediate,     \* every acquire so far was acquire(1) at the construction time
    tb_tokens,        \* TokenBucket.tokens, multiplied by TB_REFILL_DEN
    tb_last_refill,   \* TokenBucket.last_refill
    tb_ret,           \* the result of the last consume call
    cb_state,         \* CircuitBreaker.state
    failure_count,    \* CircuitBreaker.failure_count
    last_failure_time,\* CircuitBreaker.last_failure_time (0 stands for None)
    cpc,              \* per thread: "idle", or "func" while inside the wrapped function
    nCalls,           \* number of CircuitBreaker.call calls made
    lastCall,         \* how the last CircuitBreaker.call was answered at its entry
    consec,           \* failing calls completed since the breaker was CLOSED with
                      \* failure_count = 0, nothing else completed; -1 otherwise
    trial,            \* the thread running the HALF_OPEN trial call, if any
    duringTrial,      \* per thread: its call was admitted while a trial call was running
    spc,              \* per thread: position of the thread inside its call of start()
    spawned,          \* number of loop threads created by start()
    recoveries,       \* number of recoveries performed by WorkerManager
    task,             \* BaseWorkerEnhanced._run: the local variable task
    future,           \* per task: its Future ("none", "pending", "running", or
                      \* the outcome _process_task_wrapper returned)
    registered,       \* per task: the done-callback is in its Future's list
    handled,          \* per task: the task _handle_task_completion received
                      \* with the Future of this task (NoTask before the call)
    timer,            \* per task: its threading.Timer
    pool_queue,       \* the work queue of the ThreadPoolExecutor
    gpc,              \* position of a caller inside get_stats()
    snap,             \* the dictionary get_stats() is building or has returned
    api_key,          \* APIRequestWorker.api_key
    hdr_key,          \* the key in APIRequestWorker.headers["Authorization"]
    upc,              \* position of the caller inside update_api_key
    upd_k,            \* the argument of the update_api_key call in progress
    lastReturned,     \* the key of the last update_api_key call that returned
    carried,          \* the key in the headers of the request last sent
    raised,           \* number of process_task calls that raised
    errorCalls,       \* number of on_task_error invocations
    sync_tasks,       \* the SyncTask objects created so far: operation (with
                      \* the variant of its input), callback, the backup whose
                      \* on_backup_complete created it (from), and the results
                      \* on_backup_complete passed to the caller (forwarded)
    wstate,           \* per worker of the manager: BaseWorker.state
    wthread,          \* per worker of the manager: "none", "alive", "dead"
    wstop_event,      \* per worker of the manager: BaseWorker._stop_event
    mpc,              \* position of the caller inside start_all() or stop_all()
    delay,            \* per retried request: the last value of delay in process_task
    request_history,  \* APIRequestWorker.request_history
    all_records,      \* every record appended to request_history so far
    ui_update_queue,  \* KivyWorkerBridge.ui_update_queue
    callbacks,        \* the keys of KivyWorkerBridge.callbacks
    ui_ran            \* callbacks executed by the last _process_ui_updates call

workerVars == <<state, queue, stop_event, pause_event, thread, wpc, cur, wake,
                error_count, last_error_time, completed_tasks, failed_tasks>>
callVars == <<pcStart, startReturned, pcStop, stopAfterStart, stopRet>>
taskVars == <<added, addAfterGet, execCount>>
reqVars == <<retry_count, max_retries, req_n, cbSucc, cbFail, histFail, requeueFull,
             lastOutcome, reqPrio>>
rlVars == <<rl_rate, rl_per, rl_tokens, rl_last_update>>
rlCallVars == <<rl_calls, rl_cost, rl_ret, rl_immediate>>
tbVars == <<tb_tokens, tb_last_refill, tb_ret>>
cbVars == <<cb_state, failure_count, last_failure_time, cpc, nCalls, lastCall,
            consec, trial, duringTrial>>

\* What the worker's actions leave alone, and what the others do.
serviceVars == <<rlCallVars, tbVars, cbVars>>
startVars == <<spc, spawned>>
mgrVars == <<recoveries>>
enhVars == <<task, future, registered, handled, timer, pool_queue>>
statVars == <<gpc, snap>>
keyVars == <<api_key, hdr_key, upc, upd_k, lastReturned, carried>>
errVars == <<raised, errorCalls>>
fleetVars == <<wstate, wthread, wstop_event, mpc>>
histVars == <<request_history, all_records>>
uiVars == <<ui_update_queue, callbacks, ui_ran>>
compVars == <<sync_tasks, fleetVars, delay, histVars, uiVars>>
obsVars == <<statVars, keyVars, errVars, compVars>>
extVars == <<startVars, mgrVars, enhVars, obsVars>>
engineVars == <<maxsize, workerVars, callVars, taskVars, reqVars, extVars>>

vars == <<now, maxsize, workerVars, callVars, taskVars, reqVars, rlVars, rlCallVars,
          tbVars, cbVars, extVars>>

(***************************************************************************)
(* The priority queue: queue.PriorityQueue of (priority * -1, time, task). *)
(***************************************************************************)
\* Tuple order on the first two components of two queue entries.
EntryLess(a, b) == a.np < b.np \/ (a.np = b.np /\ a.ts < b.ts)

\* The entries queue.get may return: the least ones. Entries equal in
\* (priority, time) are ordered by comparing the task payloads, which is
\* unrelated to the submission order: any of them may come first.
QueueMin(q) == {e \in q : \A f \in q : ~EntryLess(f, e)}

\* Mutant: one entry more than maxsize is let in.
QueueFull_OffByOne(q) == Cardinality(q) > maxsize

\* queue.Full is raised by put(block=False) when qsize() >= maxsize.
QueueFull(q) == Cardinality(q) >= maxsize

\* Mutant: put returns without storing the entry.
QueuePut_Drops(q, t, p, ts) == q

\* queue.put((priority.value * -1, time.time(), task), block=False)
QueuePut(q, t, p, ts) == q \cup {[np |-> 0 - p, ts |-> ts, task |-> t]}

(***************************************************************************)
(* The clock.                                                              *)
(***************************************************************************)
Tick ==
    /\ now < MaxNow
    /\ now' = now + 1
    /\ UNCHANGED <<engineVars, rlVars, serviceVars>>

(***************************************************************************)
(* BaseWorker: the calls made by other threads.                            *)
(***************************************************************************)
\* start(), lines 56-60: the state check and state = RUNNING.
start_check ==
    /\ UNCHANGED <<maxsize, serviceVars, extVars>>
    /\ pcStart = "idle"
    /\ IF state = "idle"
          THEN /\ state' = "running"
               /\ pcStart' = "spawn"
          ELSE UNCHANGED <<state, pcStart>>
    /\ UNCHANGED <<now, queue, stop_event, pause_event, thread, wpc, cur, wake,
                   error_count, last_error_time, completed_tasks, failed_tasks,
                   startReturned, pcStop, stopAfterStart, stopRet,
                   taskVars, reqVars, rlVars>>

\* start(), lines 61-67: the stop event is cleared and the thread started.
start_spawn ==
    /\ UNCHANGED <<maxsize, serviceVars, extVars>>
    /\ pcStart = "spawn"
    /\ stop_event' = FALSE
    /\ thread' = "alive"
    /\ wpc' = "while"
    /\ pcStart' = "idle"
    /\ startReturned' = TRUE
    /\ UNCHANGED <<now, state, queue, pause_event, cur, wake,
                   error_count, last_error_time, completed_tasks, failed_tasks,
                   pcStop, stopAfterStart, stopRet, taskVars, reqVars, rlVars>>

\* thread.join(timeout) is entered when wait and the thread is alive.
StopJoins(w) == w /\ thread = "alive"

\* stop(wait), lines 71-79, up to the join.
stop_begin(w) ==
    /\ UNCHANGED <<maxsize, serviceVars, extVars>>
    /\ pcStop = "idle"
    /\ IF state \in {"running", "paused"}
          THEN /\ state' = "stopped"
               /\ stop_event' = TRUE
               /\ pause_event' = TRUE
               /\ IF StopJoins(w)
                     THEN /\ pcStop' = "join"
                          /\ stopAfterStart' = startReturned
                          /\ UNCHANGED stopRet
                     ELSE /\ pcStop' = "idle"
                          /\ IF w
                                THEN /\ stopRet' = "nothread"
                                     /\ stopAfterStart' = startReturned
                                ELSE UNCHANGED <<stopRet, stopAfterStart>>
          ELSE UNCHANGED <<state, stop_event, pause_event, pcStop, stopRet,
                           stopAfterStart>>
    /\ UNCHANGED <<now, queue, thread, wpc, cur, wake,
                   error_count, last_error_time, completed_tasks, failed_tasks,
                   pcStart, startReturned, taskVars, reqVars, rlVars>>

\* Mutant: the join returns without waiting for the thread.
JoinDone_NoWait == TRUE

\* The join may return: the thread has terminated.
JoinDone == thread # "alive"

\* stop(wait=True), lines 80-83: thread.join(timeout) returns because the
\* thread has terminated.
stop_joined ==
    /\ UNCHANGED <<maxsize, serviceVars, extVars>>
    /\ pcStop = "join"
    /\ JoinDone
    /\ pcStop' = "idle"
    /\ stopRet' = "joined"
    /\ UNCHANGED <<now, workerVars, pcStart, startReturned, stopAfterStart,
                   taskVars, reqVars, rlVars>>

\* stop(wait=True), lines 80-83: thread.join(timeout) returns because the
\* timeout has elapsed while the thread is still alive (the timeout and the
\* duration of the task in flight are arbitrary).
stop_join_timeout ==
    /\ UNCHANGED <<maxsize, serviceVars, extVars>>
    /\ pcStop = "join"
    /\ thread = "alive"
    /\ pcStop' = "idle"
    /\ stopRet' = "timeout"
    /\ UNCHANGED <<now, workerVars, pcStart, startReturned, stopAfterStart,
                   taskVars, reqVars, rlVars>>

\* pause()
pause ==
    /\ UNCHANGED <<maxsize, serviceVars, extVars>>
    /\ state = "running"
    /\ state' = "paused"
    /\ pause_event' = FALSE
    /\ UNCHANGED <<now, queue, stop_event, thread, wpc, cur, wake,
                   error_count, last_error_time, completed_tasks, failed_tasks,
                   callVars, taskVars, reqVars, rlVars>>

\* resume()
resume ==
    /\ UNCHANGED <<maxsize, serviceVars, extVars>>
    /\ state = "paused"
    /\ state' = "running"
    /\ pause_event' = TRUE
    /\ UNCHANGED <<now, queue, stop_event, thread, wpc, cur, wake,
                   error_count, last_error_time, completed_tasks, failed_tasks,
                   callVars, taskVars, reqVars, rlVars>>

\* Some task has been dequeued by the worker thread.
GetStarted == cur # NoTask \/ \E t \in Tasks : execCount[t] > 0

\* add_task(task, priority), lines 107-115, called with a new task. The
\* callers submit the tasks 1, 2, ... in this order.
AddTask(t, p) ==
    /\ UNCHANGED <<maxsize, serviceVars, extVars>>
    /\ added[t] = "no"
    /\ \A u \in Tasks : u < t => added[u] # "no"
    /\ addAfterGet' = (addAfterGet \/ GetStarted)
    /\ IF QueueFull(queue)
          THEN /\ added' = [added EXCEPT ![t] = "refused"]
               /\ UNCHANGED queue
          ELSE /\ queue' = QueuePut(queue, t, p, now)
               /\ added' = [added EXCEPT ![t] = "accepted"]
    /\ UNCHANGED <<now, state, stop_event, pause_event, thread, wpc, cur, wake,
                   error_count, last_error_time, completed_tasks, failed_tasks,
                   callVars, execCount, rlVars>>

\* add_task called by a submitting thread on a worker with a generic handler.
add_task(t, p) ==
    /\ AddTask(t, p)
    /\ UNCHANGED reqVars

(***************************************************************************)
(* BaseWorker._run: the worker thread.                                     *)
(***************************************************************************)
\* while not self._stop_event.is_set()
run_while ==
    /\ UNCHANGED <<maxsize, serviceVars, extVars>>
    /\ wpc = "while"
    /\ IF stop_event
          THEN /\ wpc' = "exited"
               /\ thread' = "dead"
          ELSE /\ wpc' = "pause_wait"
               /\ UNCHANGED thread
    /\ UNCHANGED <<now, state, queue, stop_event, pause_event, cur, wake,
                   error_count, last_error_time, completed_tasks, failed_tasks,
                   callVars, taskVars, reqVars, rlVars>>

\* self._pause_event.wait()
run_pause_wait ==
    /\ UNCHANGED <<maxsize, serviceVars, extVars>>
    /\ wpc = "pause_wait"
    /\ pause_event
    /\ wpc' = "cooldown"
    /\ UNCHANGED <<now, state, queue, stop_event, pause_event, thread, cur, wake,
                   error_count, last_error_time, completed_tasks, failed_tasks,
                   callVars, taskVars, reqVars, rlVars>>

\* Mutant: the cooldown window is never observed.
InCooldown_Never == FALSE

\* The cooldown test of lines 138-139.
InCooldown == error_count >= max_errors /\ now - last_error_time < error_cooldown

\* Lines 138-144: the error cooldown check.
run_cooldown ==
    /\ UNCHANGED <<maxsize, serviceVars, extVars>>
    /\ wpc = "cooldown"
    /\ IF error_count >= max_errors
          THEN IF InCooldown
                  THEN /\ wpc' = "sleep"
                       /\ wake' = now + 1
                       /\ UNCHANGED error_count
                  ELSE /\ error_count' = 0
                       /\ wpc' = "get"
                       /\ UNCHANGED wake
          ELSE /\ wpc' = "get"
               /\ UNCHANGED <<error_count, wake>>
    /\ UNCHANGED <<now, state, queue, stop_event, pause_event, thread, cur,
                   last_error_time, completed_tasks, failed_tasks,
                   callVars, taskVars, reqVars, rlVars>>

\* time.sleep(1); continue
run_sleep ==
    /\ UNCHANGED <<maxsize, serviceVars, extVars>>
    /\ wpc = "sleep"
    /\ now >= wake
    /\ wpc' = "while"
    /\ UNCHANGED <<now, state, queue, stop_event, pause_event, thread, cur, wake,
                   error_count, last_error_time, completed_tasks, failed_tasks,
                   callVars, taskVars, reqVars, rlVars>>

\* self.queue.get(timeout=1.0) returns an entry.
run_get ==
    /\ UNCHANGED <<maxsize, serviceVars, extVars>>
    /\ wpc = "get"
    /\ \E e \in QueueMin(queue) :
          /\ queue' = queue \ {e}
          /\ cur' = e.task
    /\ wpc' = "process"
    /\ UNCHANGED <<now, state, stop_event, pause_event, thread, wake,
                   error_count, last_error_time, completed_tasks, failed_tasks,
                   callVars, taskVars, reqVars, rlVars>>

\* self.queue.get(timeout=1.0) raises queue.Empty; continue
run_get_empty ==
    /\ UNCHANGED <<maxsize, serviceVars, extVars>>
    /\ wpc = "get"
    /\ queue = {}
    /\ wpc' = "while"
    /\ UNCHANGED <<now, state, queue, stop_event, pause_event, thread, cur, wake,
                   error_count, last_error_time, completed_tasks, failed_tasks,
                   callVars, taskVars, reqVars, rlVars>>

\* Mutant: a successful execution resets error_count.
HandleResult_Resets(truthy) ==
    /\ IF truthy
          THEN /\ completed_tasks' = completed_tasks + 1
               /\ error_count' = 0
               /\ UNCHANGED failed_tasks
          ELSE /\ failed_tasks' = failed_tasks + 1
               /\ UNCHANGED <<completed_tasks, error_count>>
    /\ UNCHANGED <<state, last_error_time>>

\* Lines 155-164: process_task returned result.
HandleResult(truthy) ==
    /\ IF truthy
          THEN /\ completed_tasks' = completed_tasks + 1
               /\ UNCHANGED failed_tasks
          ELSE /\ failed_tasks' = failed_tasks + 1
               /\ UNCHANGED completed_tasks
    /\ UNCHANGED <<state, error_count, last_error_time>>

\* Mutant: the worker enters ERROR one exception late.
ErrorLimitReached_Late(n) == n > max_errors

\* Line 179: the worker enters ERROR.
ErrorLimitReached(n) == n >= max_errors

\* Lines 170-182: process_task raised.
HandleException ==
    /\ error_count' = error_count + 1
    /\ last_error_time' = now
    /\ failed_tasks' = failed_tasks + 1
    /\ state' = IF ErrorLimitReached(error_count + 1) THEN "error" ELSE state
    /\ UNCHANGED completed_tasks

\* Lines 152-182 for a subclass whose process_task returns a result, returns
\* None or raises.
run_process(outcome) ==
    /\ UNCHANGED <<maxsize, serviceVars, extVars>>
    /\ wpc = "process"
    /\ execCount' = [execCount EXCEPT ![cur] = @ + 1]
    /\ CASE outcome = "ok" -> HandleResult(TRUE)
         [] outcome = "none" -> HandleResult(FALSE)
         [] outcome = "raise" -> HandleException
    /\ cur' = NoTask
    /\ wpc' = "while"
    /\ UNCHANGED <<now, queue, stop_event, pause_event, thread, wake,
                   callVars, added, addAfterGet, reqVars, rlVars>>

(***************************************************************************)
(* BaseWorker: one worker whose handler returns a result or None, started, *)
(* paused, resumed and stopped by other threads within one clock reading.  *)
(***************************************************************************)
\* BaseWorker.__init__(name, max_queue_size)
InitBaseWorker(size) ==
    /\ now = 1
    /\ maxsize = size
    /\ state = "idle"
    /\ queue = {}
    /\ stop_event = FALSE
    /\ pause_event = TRUE
    /\ thread = "none"
    /\ wpc = "none"
    /\ cur = NoTask
    /\ wake = 0
    /\ error_count = 0
    /\ last_error_time = 0
    /\ completed_tasks = 0
    /\ failed_tasks = 0
    /\ pcStart = "idle"
    /\ startReturned = FALSE
    /\ pcStop = "idle"
    /\ stopAfterStart = FALSE
    /\ stopRet = "no"
    /\ added = [t \in Tasks |-> "no"]
    /\ addAfterGet = FALSE
    /\ execCount = [t \in Tasks |-> 0]
    /\ spc = [t \in Threads |-> "idle"]
    /\ spawned = 0
    /\ recoveries = 0
    /\ task = NoTask
    /\ future = [t \in Tasks |-> "none"]
    /\ registered = [t \in Tasks |-> FALSE]
    /\ handled = [t \in Tasks |-> NoTask]
    /\ timer = [t \in Tasks |-> "unset"]
    /\ pool_queue = <<>>
    /\ gpc = "idle"
    /\ snap = NoSnapshot
    /\ api_key = 0
    /\ hdr_key = 0
    /\ upc = "idle"
    /\ upd_k = 0
    /\ lastReturned = 0
    /\ carried = 0
    /\ raised = 0
    /\ errorCalls = 0
    /\ sync_tasks = <<>>
    /\ delay = <<>>
    /\ request_history = <<>>
    /\ all_records = <<>>
    /\ ui_update_queue = <<>>
    /\ callbacks = {}
    /\ ui_ran = 0

InitRequests ==
    /\ retry_count = [t \in Tasks |-> 0]
    /\ max_retries = [t \in Tasks |-> 0]
    /\ req_n = [t \in Tasks |-> 1]
    /\ cbSucc = [t \in Tasks |-> 0]
    /\ cbFail = [t \in Tasks |-> 0]
    /\ histFail = [t \in Tasks |-> 0]
    /\ requeueFull = [t \in Tasks |-> FALSE]
    /\ lastOutcome = [t \in Tasks |-> "none"]
    /\ reqPrio = [t \in Tasks |-> NORMAL]

\* RateLimiter.__init__(rate, per)
InitLimiter(rate, per) ==
    /\ rl_rate = rate
    /\ rl_per = per
    /\ rl_tokens = rate * per
    /\ rl_last_update = now
    /\ rl_calls = 0
    /\ rl_cost = 0
    /\ rl_ret = 0
    /\ rl_immediate = TRUE

\* TokenBucket.__init__(capacity, refill_rate)
InitBucket ==
    /\ tb_tokens = TB_CAPACITY * TB_REFILL_DEN
    /\ tb_last_refill = now
    /\ tb_ret = TRUE

InitWorker == InitBaseWorker(max_queue_size)

\* The worker is constructed on its own: there is no WorkerManager.
NoManager ==
    /\ wstate = <<>>
    /\ wthread = <<>>
    /\ wstop_event = <<>>
    /\ mpc = [op |-> "idle", i |-> 0]

\* CircuitBreaker.__init__
InitBreaker ==
    /\ cb_state = "closed"
    /\ failure_count = 0
    /\ last_failure_time = 0
    /\ cpc = [t \in Threads |-> "idle"]
    /\ nCalls = 0
    /\ lastCall = "none"
    /\ consec = 0
    /\ trial = NoThread
    /\ duringTrial = [t \in Threads |-> FALSE]

Init ==
    /\ InitWorker
    /\ NoManager
    /\ InitRequests
    /\ InitLimiter(RL_RATE, RL_PER)
    /\ InitBucket
    /\ InitBreaker

Next ==
    \/ start_check
    \/ start_spawn
    \/ \E w \in BOOLEAN : stop_begin(w)
    \/ stop_joined
    \/ stop_join_timeout
    \/ pause
    \/ resume
    \/ \E t \in Submitted, p \in Priorities : add_task(t, p)
    \/ run_while
    \/ run_pause_wait
    \/ run_cooldown
    \/ run_get
    \/ run_get_empty
    \/ \E o \in {"ok", "none"} : run_process(o)

Spec == Init /\ [][Next]_vars

(***************************************************************************)
(* A worker running on its own, with a handler that may raise, while the   *)
(* clock advances.                                                         *)
(***************************************************************************)
NextCooldown ==
    \/ Tick
    \/ start_check
    \/ start_spawn
    \/ \E t \in Submitted, p \in Priorities : add_task(t, p)
    \/ run_while
    \/ run_pause_wait
    \/ run_cooldown
    \/ run_sleep
    \/ run_get
    \/ run_get_empty
    \/ \E o \in {"ok", "none", "raise"} : run_process(o)

SpecCooldown == Init /\ [][NextCooldown]_vars

(***************************************************************************)
(* The worker with every call and a handler that may raise, while the      *)
(* clock advances.                                                         *)
(***************************************************************************)
NextAll ==
    \/ Next
    \/ NextCooldown

SpecAll == Init /\ [][NextAll]_vars

(***************************************************************************)
(* BaseWorker.start called by several threads: the statements of start()   *)
(* run without a lock, so the calls interleave statement by statement.     *)
(***************************************************************************)
\* Lines 56-58: if self.state != WorkerState.IDLE: return False
st_check(t) ==
    /\ spc[t] = "idle"
    /\ spc' = [spc EXCEPT ![t] = IF state = "idle" THEN "checked" ELSE "false"]
    /\ UNCHANGED <<now, maxsize, workerVars, callVars, taskVars, reqVars, rlVars,
                   serviceVars, spawned, mgrVars, enhVars, obsVars>>

\* Lines 60-61: self.state = WorkerState.RUNNING; self._stop_event.clear()
st_set(t) ==
    /\ spc[t] = "checked"
    /\ state' = "running"
    /\ stop_event' = FALSE
    /\ spc' = [spc EXCEPT ![t] = "spawn"]
    /\ UNCHANGED <<now, maxsize, queue, pause_event, thread, wpc, cur, wake,
                   error_count, last_error_time, completed_tasks, failed_tasks,
                   callVars, taskVars, reqVars, rlVars, serviceVars, spawned,
                   mgrVars, enhVars, obsVars>>

\* Lines 62-67: the loop thread is created and started; return True
st_spawn(t) ==
    /\ spc[t] = "spawn"
    /\ thread' = "alive"
    /\ spawned' = spawned + 1
    /\ spc' = [spc EXCEPT ![t] = "true"]
    /\ UNCHANGED <<now, maxsize, state, queue, stop_event, pause_event, wpc, cur,
                   wake, error_count, last_error_time, completed_tasks,
                   failed_tasks, callVars, taskVars, reqVars, rlVars, serviceVars,
                   mgrVars, enhVars, obsVars>>

NextStart ==
    \/ \E t \in Threads : st_check(t)
    \/ \E t \in Threads : st_set(t)
    \/ \E t \in Threads : st_spawn(t)
    \/ stop_begin(FALSE)
    \/ pause
    \/ resume
    \/ \E t \in Submitted, p \in Priorities : add_task(t, p)

SpecStart == Init /\ [][NextStart]_vars

(***************************************************************************)
(* A worker owned by a WorkerManager: on_state_change is                   *)
(* WorkerManager._handle_state_change, which _notify_state_change calls in *)
(* the worker thread right after self.state = WorkerState.ERROR.           *)
(***************************************************************************)
\* The state after stop(wait=False), base_worker.py lines 71-75.
StateAfterStop(st) == IF st \in {"running", "paused"} THEN "stopped" ELSE st

\* The state after start(), base_worker.py lines 56-60.
StateAfterStart(st) == IF st = "idle" THEN "running" ELSE st

\* Lines 170-182 of _run with lines 333-339 of _handle_state_change:
\* worker.stop(wait=False); worker.error_count = 0; worker.start(). No call
\* of another thread changes the state ERROR in between, and start() creates
\* a thread only from IDLE.
ManagedException ==
    /\ last_error_time' = now
    /\ failed_tasks' = failed_tasks + 1
    /\ UNCHANGED completed_tasks
    /\ IF ErrorLimitReached(error_count + 1)
          THEN /\ state' = StateAfterStart(StateAfterStop("error"))
               /\ error_count' = 0
               /\ recoveries' = recoveries + 1
          ELSE /\ error_count' = error_count + 1
               /\ UNCHANGED <<state, recoveries>>

\* Lines 152-182 of _run for a worker owned by the manager.
run_process_managed(outcome) ==
    /\ UNCHANGED <<maxsize, serviceVars, startVars, enhVars, obsVars>>
    /\ wpc = "process"
    /\ execCount' = [execCount EXCEPT ![cur] = @ + 1]
    /\ CASE outcome = "ok" -> HandleResult(TRUE) /\ UNCHANGED recoveries
         [] outcome = "none" -> HandleResult(FALSE) /\ UNCHANGED recoveries
         [] outcome = "raise" -> ManagedException
    /\ cur' = NoTask
    /\ wpc' = "while"
    /\ UNCHANGED <<now, queue, stop_event, pause_event, thread, wake,
                   callVars, added, addAfterGet, reqVars, rlVars>>

NextManaged ==
    \/ start_check
    \/ start_spawn
    \/ \E t \in Tasks, p \in Priorities : add_task(t, p)
    \/ run_while
    \/ run_pause_wait
    \/ run_cooldown
    \/ run_get
    \/ run_get_empty
    \/ \E o \in {"ok", "none", "raise"} : run_process_managed(o)

SpecManaged == Init /\ [][NextManaged]_vars

(***************************************************************************)
(* The same worker under a wall clock that may be set back between two     *)
(* calls of time.time(), with a handler that always succeeds.              *)
(***************************************************************************)
ClockAdjust ==
    /\ \E v \in 1..MaxNow : v < now /\ now' = v
    /\ UNCHANGED <<engineVars, rlVars, serviceVars>>

NextClock ==
    \/ Tick
    \/ ClockAdjust
    \/ start_check
    \/ start_spawn
    \/ \E t \in Submitted, p \in Priorities : add_task(t, p)
    \/ run_while
    \/ run_pause_wait
    \/ run_cooldown
    \/ run_get
    \/ run_get_empty
    \/ run_process("ok")

SpecClock == Init /\ [][NextClock]_vars

(***************************************************************************)
(* APIRequestWorker: RateLimiter.acquire and process_task.                 *)
(***************************************************************************)
Min(a, b) == IF a <= b THEN a ELSE b

\* The least integer k with k * d >= n, for n >= 0 and d > 0.
CeilDiv(n, d) == (n + d - 1) \div d

\* Mutant: the refill is not clamped to the capacity.
Refill_Unclamped(tokens, elapsed, rate, per) == tokens + elapsed * rate

\* Line 55: tokens after the refill (tokens are kept multiplied by per).
\* self.tokens = min(self.rate, self.tokens + elapsed * (self.rate / self.per))
Refill(tokens, elapsed, rate, per) == Min(rate * per, tokens + elapsed * rate)

\* Line 58: if self.tokens >= tokens
Admitted(tokens, cost, per) == tokens >= cost * per

\* Mutant: the cost is deducted without the test of line 58.
AfterAcquire_Unchecked(tokens, cost, per) == tokens - cost * per

\* Lines 59 and 61-65: tokens after the call, given the tokens after the refill.
AfterAcquire(tokens, cost, per) ==
    IF Admitted(tokens, cost, per) THEN tokens - cost * per ELSE tokens

\* Lines 60 and 63-65: the wait returned, as a fraction num / den of a second:
\* deficit * (per / rate) with deficit = cost - tokens.
WaitNum(tokens, cost, per) ==
    IF Admitted(tokens, cost, per) THEN 0 ELSE cost * per - tokens

\* Line 94-97: wait_time = self.rate_limiter.acquire(request.n), then sleep.
api_acquire ==
    /\ UNCHANGED <<maxsize, serviceVars, extVars>>
    /\ wpc = "process"
    /\ LET t == Refill(rl_tokens, now - rl_last_update, rl_rate, rl_per)
           w == WaitNum(t, req_n[cur], rl_per)
       IN  /\ rl_tokens' = AfterAcquire(t, req_n[cur], rl_per)
           /\ rl_last_update' = now
           /\ IF w > 0
                 THEN /\ wpc' = "rl_sleep"
                      /\ wake' = now + CeilDiv(w, rl_rate)
                 ELSE /\ wpc' = "call"
                      /\ UNCHANGED wake
    /\ UNCHANGED <<now, state, queue, stop_event, pause_event, thread, cur,
                   error_count, last_error_time, completed_tasks, failed_tasks,
                   callVars, taskVars, reqVars, rl_rate, rl_per>>

\* Line 97: time.sleep(wait_time) returns.
api_rl_wake ==
    /\ UNCHANGED <<maxsize, serviceVars, extVars>>
    /\ wpc = "rl_sleep"
    /\ now >= wake
    /\ wpc' = "call"
    /\ UNCHANGED <<now, state, queue, stop_event, pause_event, thread, cur, wake,
                   error_count, last_error_time, completed_tasks, failed_tasks,
                   callVars, taskVars, reqVars, rlVars>>

\* Mutant: one retry too many.
MayRetry_OffByOne(t) == retry_count[t] <= max_retries[t]

\* Line 120: the retry test.
MayRetry(t) == retry_count[t] < max_retries[t]

\* Mutant: the index wraps around the schedule instead of staying at its end.
RetryDelay_Wraps(t) == retry_delays[(retry_count[t] % Len(retry_delays)) + 1]

\* Line 121: the backoff delay before the retry.
RetryDelay(t) == retry_delays[Min(retry_count[t], Len(retry_delays) - 1) + 1]

\* Lines 99-124 and 130-145: the operation is executed and succeeds or raises:
\* "server_error" and "client_error" are the exceptions raised for a response
\* whose status is not 200 (lines 169-171) or for an unknown request type
\* (line 107); except Exception catches them alike.
api_call(outcome) ==
    /\ UNCHANGED <<maxsize, serviceVars, extVars>>
    /\ wpc = "call"
    /\ execCount' = [execCount EXCEPT ![cur] = @ + 1]
    /\ lastOutcome' = [lastOutcome EXCEPT ![cur] = outcome]
    /\ CASE outcome = "success" ->
              /\ cbSucc' = [cbSucc EXCEPT ![cur] = @ + 1]
              /\ HandleResult(TRUE)
              /\ cur' = NoTask
              /\ wpc' = "while"
              /\ UNCHANGED <<cbFail, histFail, wake>>
         [] outcome # "success" /\ MayRetry(cur) ->
              /\ wpc' = "backoff"
              /\ wake' = now + RetryDelay(cur)
              /\ UNCHANGED <<cbSucc, cbFail, histFail, cur, state, error_count,
                             last_error_time, completed_tasks, failed_tasks>>
         [] outcome # "success" /\ ~MayRetry(cur) ->
              /\ histFail' = [histFail EXCEPT ![cur] = @ + 1]
              /\ cbFail' = [cbFail EXCEPT ![cur] = @ + 1]
              /\ HandleResult(FALSE)
              /\ cur' = NoTask
              /\ wpc' = "while"
              /\ UNCHANGED <<cbSucc, wake>>
    /\ UNCHANGED <<now, queue, stop_event, pause_event, thread,
                   callVars, added, addAfterGet, retry_count, max_retries, req_n,
                   requeueFull, reqPrio, rlVars>>

\* Lines 124-129: after the backoff sleep, retry_count is incremented and the
\* request is put back with add_task(request, WorkerPriority.HIGH), whose
\* result is not looked at; process_task returns None.
api_requeue ==
    /\ UNCHANGED <<maxsize, serviceVars, extVars>>
    /\ wpc = "backoff"
    /\ now >= wake
    /\ retry_count' = [retry_count EXCEPT ![cur] = @ + 1]
    /\ IF QueueFull(queue)
          THEN /\ requeueFull' = [requeueFull EXCEPT ![cur] = TRUE]
               /\ UNCHANGED queue
          ELSE /\ queue' = QueuePut(queue, cur, HIGH, now)
               /\ UNCHANGED requeueFull
    /\ HandleResult(FALSE)
    /\ cur' = NoTask
    /\ wpc' = "while"
    /\ UNCHANGED <<now, stop_event, pause_event, thread, wake,
                   callVars, taskVars, max_retries, req_n, cbSucc, cbFail,
                   histFail, lastOutcome, reqPrio, rlVars>>

\* The APIRequest objects the callers submit: all with n = 1 (the default)
\* and with the same max_retries, any value up to MaxRetries.
InitApi ==
    /\ InitBaseWorker(api_max_queue_size)
    /\ NoManager
    /\ retry_count = [t \in Tasks |-> 0]
    /\ \E m \in 0..MaxRetries : max_retries = [t \in Tasks |-> m]
    /\ req_n = [t \in Tasks |-> 1]
    /\ cbSucc = [t \in Tasks |-> 0]
    /\ cbFail = [t \in Tasks |-> 0]
    /\ histFail = [t \in Tasks |-> 0]
    /\ requeueFull = [t \in Tasks |-> FALSE]
    /\ lastOutcome = [t \in Tasks |-> "none"]
    /\ reqPrio = [t \in Tasks |-> NORMAL]
    /\ InitLimiter(RL_RATE, RL_PER)
    /\ InitBucket
    /\ InitBreaker

NextApi ==
    \/ Tick
    \/ start_check
    \/ start_spawn
    \/ \E t \in Requests, p \in Priorities : add_task(t, p)
    \/ run_while
    \/ run_pause_wait
    \/ run_cooldown
    \/ run_get
    \/ run_get_empty
    \/ api_acquire
    \/ \E o \in {"success", "server_error", "client_error"} : api_call(o)
    \/ api_requeue

SpecApi == InitApi /\ [][NextApi]_vars

(***************************************************************************)
(* RateLimiter (src/workers/api_request.py) and TokenBucket                *)
(* (src/services/rate_limiter.py) called directly. Both run under their    *)
(* lock, so each call is one step.                                         *)
(***************************************************************************)
\* RateLimiter.acquire(cost) called by some thread.
acquire(cost) ==
    /\ rl_calls < MaxBucketCalls
    /\ LET t == Refill(rl_tokens, now - rl_last_update, rl_rate, rl_per)
       IN  /\ rl_tokens' = AfterAcquire(t, cost, rl_per)
           /\ rl_ret' = WaitNum(t, cost, rl_per)
    /\ rl_last_update' = now
    /\ rl_calls' = rl_calls + 1
    /\ rl_cost' = cost
    /\ rl_immediate' = (rl_immediate /\ cost = 1 /\ now = 1)
    /\ UNCHANGED <<now, rl_rate, rl_per, tbVars, cbVars, engineVars>>

\* Line 29: tokens after the refill (tokens are kept multiplied by
\* TB_REFILL_DEN): min(self.capacity, self.tokens + elapsed * self.refill_rate)
TbRefill(tokens, elapsed) ==
    Min(TB_CAPACITY * TB_REFILL_DEN, tokens + elapsed * TB_REFILL_NUM)

\* Line 33: if self.tokens >= tokens
TbEnough(tokens, cost) == tokens >= cost * TB_REFILL_DEN

\* TokenBucket.consume(cost) called by some thread.
consume(cost) ==
    /\ LET t == TbRefill(tb_tokens, now - tb_last_refill)
       IN  /\ tb_tokens' = IF TbEnough(t, cost) THEN t - cost * TB_REFILL_DEN ELSE t
           /\ tb_ret' = TbEnough(t, cost)
    /\ tb_last_refill' = now
    /\ UNCHANGED <<now, rlVars, rlCallVars, cbVars, engineVars>>

\* Time passes between two calls.
Elapse(d) ==
    /\ now + d <= MaxBucketNow
    /\ now' = now + d
    /\ UNCHANGED <<rlVars, serviceVars, engineVars>>

\* RateLimiter(rate=5, per=60), the bucket of capacity 5 refilled at 5 / 60
\* tokens per second, and TokenBucket(capacity=5, refill_rate=5/60).
InitBuckets ==
    /\ InitWorker
    /\ NoManager
    /\ InitRequests
    /\ InitLimiter(TB_CAPACITY, TB_REFILL_DEN)
    /\ InitBucket
    /\ InitBreaker

NextBuckets ==
    \/ \E c \in 0..MaxCost : acquire(c)
    \/ \E c \in 0..MaxCost : consume(c)
    \/ \E d \in {6, 12} : Elapse(d)

SpecBuckets == InitBuckets /\ [][NextBuckets]_vars

(***************************************************************************)
(* CircuitBreaker.call(func) made by the threads of Threads. The lock is   *)
(* held at the entry and after func has returned or raised, not while      *)
(* func runs.                                                              *)
(***************************************************************************)
\* Mutant: the trial is let through as soon as recovery_timeout is reached.
RecoveryElapsed_Early ==
    last_failure_time # 0 /\ now - last_failure_time >= recovery_timeout

\* Lines 62-63: the recovery test (None and 0 are both falsy).
RecoveryElapsed ==
    last_failure_time # 0 /\ now - last_failure_time > recovery_timeout

\* Lines 59-67: the entry of call under the lock.
cb_enter(t) ==
    /\ cpc[t] = "idle"
    /\ nCalls < MaxCalls
    /\ nCalls' = nCalls + 1
    /\ IF cb_state = "open"
          THEN IF RecoveryElapsed
                  THEN /\ cb_state' = "half_open"
                       /\ cpc' = [cpc EXCEPT ![t] = "func"]
                       /\ lastCall' = "admitted"
                       /\ duringTrial' = [duringTrial EXCEPT ![t] = (trial # NoThread)]
                       /\ trial' = t
                  ELSE /\ lastCall' = "rejected"
                       /\ UNCHANGED <<cb_state, cpc, trial, duringTrial>>
          ELSE /\ cpc' = [cpc EXCEPT ![t] = "func"]
               /\ lastCall' = "admitted"
               /\ duringTrial' = [duringTrial EXCEPT ![t] = (trial # NoThread)]
               /\ UNCHANGED <<cb_state, trial>>
    /\ UNCHANGED <<now, failure_count, last_failure_time, consec,
                   rlVars, rlCallVars, tbVars, engineVars>>

\* Mutant: the decrement is not stopped at 0.
AfterSuccess_NoFloor(n) == n - 1

\* Lines 77-78: elif self.failure_count > 0: self.failure_count -= 1
AfterSuccess(n) == IF n > 0 THEN n - 1 ELSE n

\* Lines 70-79: func returned.
cb_success(t) ==
    /\ cpc[t] = "func"
    /\ cpc' = [cpc EXCEPT ![t] = "idle"]
    /\ IF cb_state = "half_open"
          THEN /\ cb_state' = "closed"
               /\ failure_count' = 0
          ELSE /\ failure_count' = AfterSuccess(failure_count)
               /\ UNCHANGED cb_state
    /\ consec' = IF cb_state' = "closed" /\ failure_count' = 0 THEN 0 ELSE 0 - 1
    /\ trial' = IF trial = t THEN NoThread ELSE trial
    /\ duringTrial' = [duringTrial EXCEPT ![t] = FALSE]
    /\ UNCHANGED <<now, last_failure_time, nCalls, lastCall,
                   rlVars, rlCallVars, tbVars, engineVars>>

\* Mutant: the breaker opens one failure late.
ThresholdReached_Late(n) == n > failure_threshold

\* Line 86: the breaker opens.
ThresholdReached(n) == n >= failure_threshold

\* Lines 81-90: func raised the expected exception.
cb_failure(t) ==
    /\ cpc[t] = "func"
    /\ cpc' = [cpc EXCEPT ![t] = "idle"]
    /\ failure_count' = failure_count + 1
    /\ last_failure_time' = now
    /\ cb_state' = IF ThresholdReached(failure_count + 1) THEN "open" ELSE cb_state
    /\ consec' = IF consec >= 0 THEN consec + 1 ELSE consec
    /\ trial' = IF trial = t THEN NoThread ELSE trial
    /\ duringTrial' = [duringTrial EXCEPT ![t] = FALSE]
    /\ UNCHANGED <<now, nCalls, lastCall, rlVars, rlCallVars, tbVars, engineVars>>

NextBreaker ==
    \/ Tick
    \/ \E t \in Threads : cb_enter(t)
    \/ \E t \in Threads : cb_success(t)
    \/ \E t \in Threads : cb_failure(t)

SpecBreaker == Init /\ [][NextBreaker]_vars

(***************************************************************************)
(* BaseWorkerEnhanced (src/workers/base_worker_enhanced.py): the dispatch  *)
(* loop _run hands every dequeued task to a ThreadPoolExecutor; the pool   *)
(* threads run _process_task_wrapper and the done-callback of the Future   *)
(* runs _handle_task_completion. Every task carries a callback and an      *)
(* error_callback. The worker is not stopped or paused here, and all of it *)
(* happens within one clock reading.                                       *)
(***************************************************************************)
\* What the calls and threads of the enhanced worker leave alone.
enhFrame == <<now, maxsize, stop_event, pause_event, cur, callVars, addAfterGet,
              execCount, reqVars, rlVars, serviceVars, startVars, mgrVars, obsVars>>

\* The outcomes _process_task_wrapper returns: (True, result), (False, e),
\* and (False, None) after on_task_timeout.
FutureDone == {"success", "error", "timeout"}

\* start(), under state_lock.
enh_start ==
    /\ state = "idle"
    /\ state' = "running"
    /\ thread' = "alive"
    /\ wpc' = "while"
    /\ UNCHANGED <<queue, wake, error_count, last_error_time, completed_tasks,
                   failed_tasks, added, enhVars, enhFrame>>

\* add_task(task_data, priority, timeout, callback, error_callback), called
\* with a timeout (hasTimeout) or with timeout=None.
enh_add_task(t, p, hasTimeout) ==
    /\ added[t] = "no"
    /\ \A u \in Tasks : u < t => added[u] # "no"
    /\ IF QueueFull(queue)
          THEN /\ added' = [added EXCEPT ![t] = "refused"]
               /\ UNCHANGED <<queue, timer>>
          ELSE /\ queue' = QueuePut(queue, t, p, now)
               /\ added' = [added EXCEPT ![t] = "accepted"]
               /\ timer' = [timer EXCEPT ![t] = IF hasTimeout THEN "set" ELSE "unset"]
    /\ UNCHANGED <<state, thread, wpc, wake, error_count, last_error_time,
                   completed_tasks, failed_tasks, task, future, registered,
                   handled, pool_queue, enhFrame>>

\* _run: while not self._stop_event.is_set()
enh_run_while ==
    /\ wpc = "while"
    /\ IF stop_event
          THEN /\ wpc' = "exited"
               /\ thread' = "dead"
          ELSE /\ wpc' = "pause_wait"
               /\ UNCHANGED thread
    /\ UNCHANGED <<state, queue, wake, error_count, last_error_time,
                   completed_tasks, failed_tasks, added, enhVars, enhFrame>>

\* _run: self._pause_event.wait()
enh_run_pause_wait ==
    /\ wpc = "pause_wait"
    /\ pause_event
    /\ wpc' = "cooldown"
    /\ UNCHANGED <<state, queue, thread, wake, error_count, last_error_time,
                   completed_tasks, failed_tasks, added, enhVars, enhFrame>>

\* _run: if self._should_cooldown(): time.sleep(1); continue
enh_run_cooldown ==
    /\ wpc = "cooldown"
    /\ IF error_count >= max_errors
          THEN IF now - last_error_time < error_cooldown
                  THEN /\ wpc' = "sleep"
                       /\ wake' = now + 1
                       /\ UNCHANGED error_count
                  ELSE /\ error_count' = 0
                       /\ wpc' = "get"
                       /\ UNCHANGED wake
          ELSE /\ wpc' = "get"
               /\ UNCHANGED <<error_count, wake>>
    /\ UNCHANGED <<state, queue, thread, last_error_time, completed_tasks,
                   failed_tasks, added, enhVars, enhFrame>>

\* _run: task = self.task_queue.get(timeout=1.0)
enh_run_get ==
    /\ wpc = "get"
    /\ \E e \in QueueMin(queue) :
          /\ queue' = queue \ {e}
          /\ task' = e.task
    /\ wpc' = "submit"
    /\ UNCHANGED <<state, thread, wake, error_count, last_error_time,
                   completed_tasks, failed_tasks, added, future, registered,
                   handled, timer, pool_queue, enhFrame>>

\* _run: task_queue.get raises queue.Empty; continue
enh_run_get_empty ==
    /\ wpc = "get"
    /\ queue = {}
    /\ wpc' = "while"
    /\ UNCHANGED <<state, queue, thread, wake, error_count, last_error_time,
                   completed_tasks, failed_tasks, added, enhVars, enhFrame>>

\* _run: future = self.thread_pool.submit(self._process_task_wrapper, task)
enh_run_submit ==
    /\ wpc = "submit"
    /\ future' = [future EXCEPT ![task] = "pending"]
    /\ pool_queue' = Append(pool_queue, task)
    /\ wpc' = "add_done_callback"
    /\ UNCHANGED <<state, queue, thread, wake, error_count, last_error_time,
                   completed_tasks, failed_tasks, added, task, registered,
                   handled, timer, enhFrame>>

\* _handle_error(error)
handle_error ==
    /\ error_count' = error_count + 1
    /\ last_error_time' = now
    /\ state' = IF error_count + 1 >= max_errors THEN "error" ELSE state

\* _handle_task_completion(future, task) called with the Future of the task
\* f and with the task x: on success x.callback(result) and
\* on_task_complete(x, result), otherwise x.error_callback(result),
\* on_task_error(x, result) and _handle_error.
handle_task_completion(f, x) ==
    /\ handled' = [handled EXCEPT ![f] = x]
    /\ IF future[f] = "success"
          THEN /\ completed_tasks' = completed_tasks + 1
               /\ UNCHANGED <<failed_tasks, error_count, last_error_time, state>>
          ELSE /\ failed_tasks' = failed_tasks + 1
               /\ handle_error
               /\ UNCHANGED completed_tasks

\* _run: future.add_done_callback(lambda f: self._handle_task_completion(f,
\* task)). A Future that has finished runs the callback at once, in the loop
\* thread; otherwise the callback is appended to the Future's list.
enh_run_add_done_callback ==
    /\ wpc = "add_done_callback"
    /\ IF future[task] \in FutureDone
          THEN /\ handle_task_completion(task, task)
               /\ UNCHANGED registered
          ELSE /\ registered' = [registered EXCEPT ![task] = TRUE]
               /\ UNCHANGED <<handled, completed_tasks, failed_tasks, error_count,
                              last_error_time, state>>
    /\ wpc' = "while"
    /\ UNCHANGED <<queue, thread, wake, added, task, future, timer, pool_queue,
                   enhFrame>>

\* The pool threads that are running a task or the callbacks of its Future.
PoolBusy ==
    {t \in Tasks : \/ future[t] = "running"
                   \/ future[t] \in FutureDone /\ registered[t] /\ handled[t] = NoTask}

\* A pool thread takes the next work item and enters _process_task_wrapper:
\* with task.timeout set, threading.Timer(task.timeout, timeout_handler) is
\* started before process_task is called.
enh_pool_run(t) ==
    /\ pool_queue # <<>>
    /\ t = Head(pool_queue)
    /\ Cardinality(PoolBusy) < max_workers
    /\ pool_queue' = Tail(pool_queue)
    /\ future' = [future EXCEPT ![t] = "running"]
    /\ timer' = [timer EXCEPT ![t] = IF @ = "set" THEN "armed" ELSE @]
    /\ UNCHANGED <<state, queue, thread, wpc, wake, error_count, last_error_time,
                   completed_tasks, failed_tasks, added, task, registered,
                   handled, enhFrame>>

\* The Timer thread of the task runs timeout_handler after task.timeout
\* seconds: it sets timeout_event, which nothing reads, and raises
\* TimeoutError in the Timer thread itself. "expired" records that
\* process_task had not returned by then.
enh_timeout_handler(t) ==
    /\ timer[t] = "armed"
    /\ timer' = [timer EXCEPT ![t] = IF future[t] = "running" THEN "expired"
                                                               ELSE "late"]
    /\ UNCHANGED <<state, queue, thread, wpc, wake, error_count, last_error_time,
                   completed_tasks, failed_tasks, added, task, future, registered,
                   handled, pool_queue, enhFrame>>

\* What _process_task_wrapper returns when process_task returned a result
\* ("ok"), raised an exception other than TimeoutError ("raise") or raised
\* TimeoutError itself ("raise_timeout"): except TimeoutError is entered
\* only inside the branch of a task with a timeout.
WrapperResult(outcome, tm) ==
    CASE outcome = "ok" -> "success"
      [] outcome = "raise" -> "error"
      [] outcome = "raise_timeout" -> IF tm = "unset" THEN "error" ELSE "timeout"

\* _process_task_wrapper from the return of process_task on: timer.cancel()
\* on the success path, then the Future is set to the returned pair.
enh_process_task(t, outcome) ==
    /\ future[t] = "running"
    /\ future' = [future EXCEPT ![t] = WrapperResult(outcome, timer[t])]
    /\ timer' = [timer EXCEPT ![t] = IF outcome = "ok" /\ @ = "armed"
                                        THEN "cancelled" ELSE @]
    /\ UNCHANGED <<state, queue, thread, wpc, wake, error_count, last_error_time,
                   completed_tasks, failed_tasks, added, task, registered,
                   handled, pool_queue, enhFrame>>

\* The pool thread runs the done-callback of the finished Future of t: the
\* lambda reads the variable task of _run when it is called.
enh_done_callback(t) ==
    /\ future[t] \in FutureDone
    /\ registered[t]
    /\ handled[t] = NoTask
    /\ handle_task_completion(t, task)
    /\ UNCHANGED <<queue, thread, wpc, wake, added, task, future, registered,
                   timer, pool_queue, enhFrame>>

NextEnhanced ==
    \/ enh_start
    \/ \E t \in Submitted, p \in {NORMAL, HIGH}, h \in BOOLEAN : enh_add_task(t, p, h)
    \/ enh_run_while
    \/ enh_run_pause_wait
    \/ enh_run_cooldown
    \/ enh_run_get
    \/ enh_run_get_empty
    \/ enh_run_submit
    \/ enh_run_add_done_callback
    \/ \E t \in Tasks : enh_pool_run(t)
    \/ \E t \in Tasks : enh_timeout_handler(t)
    \/ \E t \in Tasks, o \in {"ok", "raise", "raise_timeout"} : enh_process_task(t, o)
    \/ \E t \in Tasks : enh_done_callback(t)

SpecEnhanced == Init /\ [][NextEnhanced]_vars

(***************************************************************************)
(* BaseWorker.get_stats() called by another thread while the worker runs:  *)
(* the dictionary is built field by field and no lock is taken, so the     *)
(* worker thread and add_task may run between two reads.                   *)
(* WorkerManager.get_all_stats() calls get_stats() of each worker.         *)
(***************************************************************************)
\* What the steps of get_stats leave alone.
statFrame == <<now, maxsize, workerVars, callVars, taskVars, reqVars, rlVars,
               serviceVars, startVars, mgrVars, enhVars, keyVars, errVars, compVars>>

\* Line 121: "state": self.state.value
gs_state ==
    /\ gpc = "idle"
    /\ snap' = [NoSnapshot EXCEPT !.state = state]
    /\ gpc' = "queue_size"
    /\ UNCHANGED statFrame

\* Line 122: "queue_size": self.queue.qsize()
gs_queue_size ==
    /\ gpc = "queue_size"
    /\ snap' = [snap EXCEPT !.queue_size = Cardinality(queue)]
    /\ gpc' = "completed_tasks"
    /\ UNCHANGED statFrame

\* Line 123: "completed_tasks": self.completed_tasks
gs_completed_tasks ==
    /\ gpc = "completed_tasks"
    /\ snap' = [snap EXCEPT !.completed_tasks = completed_tasks]
    /\ gpc' = "failed_tasks"
    /\ UNCHANGED statFrame

\* Line 124: "failed_tasks": self.failed_tasks
gs_failed_tasks ==
    /\ gpc = "failed_tasks"
    /\ snap' = [snap EXCEPT !.failed_tasks = failed_tasks]
    /\ gpc' = "error_count"
    /\ UNCHANGED statFrame

\* Lines 125-127: "error_count": self.error_count, and the return.
gs_error_count ==
    /\ gpc = "error_count"
    /\ snap' = [snap EXCEPT !.error_count = error_count]
    /\ gpc' = "returned"
    /\ UNCHANGED statFrame

\* The caller is back from get_stats() and may call it again.
gs_again ==
    /\ gpc = "returned"
    /\ gpc' = "idle"
    /\ UNCHANGED <<snap, statFrame>>

\* The tasks add_task has put in the queue so far.
Accepted == {t \in Tasks : added[t] = "accepted"}

NextStats ==
    \/ start_check
    \/ start_spawn
    \/ \E t \in Submitted : add_task(t, NORMAL)
    \/ run_while
    \/ run_pause_wait
    \/ run_cooldown
    \/ run_get
    \/ run_get_empty
    \/ \E o \in {"ok", "none"} : run_process(o)
    \/ gs_state
    \/ gs_queue_size
    \/ gs_completed_tasks
    \/ gs_failed_tasks
    \/ gs_error_count
    \/ gs_again

SpecStats == Init /\ [][NextStats]_vars

(***************************************************************************)
(* APIRequestWorker.update_api_key called by the user-interface thread     *)
(* (through WorkerManager.update_api_key) while the worker dispatches      *)
(* requests. Keys are numbers: 0 is the key given to the constructor. A    *)
(* request is sent with the headers read at the call of requests.post and  *)
(* keeps them until the response.                                          *)
(***************************************************************************)
Keys == 1..NKeys

\* What the steps of update_api_key leave alone.
keyFrame == <<now, maxsize, workerVars, callVars, taskVars, reqVars, rlVars,
              serviceVars, startVars, mgrVars, enhVars, statVars, errVars, compVars>>

\* WorkerManager.update_api_key(k), lines 371-375, up to the call of the
\* worker's update_api_key.
uk_manager(k) ==
    /\ upc = "idle"
    /\ upd_k' = k
    /\ upc' = "api_key"
    /\ UNCHANGED <<api_key, hdr_key, lastReturned, carried, keyFrame>>

\* Line 367: self.api_key = new_api_key
uk_api_key ==
    /\ upc = "api_key"
    /\ api_key' = upd_k
    /\ upc' = "headers"
    /\ UNCHANGED <<hdr_key, upd_k, lastReturned, carried, keyFrame>>

\* Mutant: the headers keep the key they had.
HeaderAfterUpdate_Kept(k) == hdr_key

\* Line 368: self.headers["Authorization"] = f"Bearer {new_api_key}"
HeaderAfterUpdate(k) == k

\* Lines 368-369: the header is assigned and the call returns.
uk_headers ==
    /\ upc = "headers"
    /\ hdr_key' = HeaderAfterUpdate(upd_k)
    /\ lastReturned' = upd_k
    /\ upc' = "idle"
    /\ UNCHANGED <<api_key, upd_k, carried, keyFrame>>

\* Lines 162-167 (and 202, 251): requests.post(endpoint, headers=...) is
\* called with the headers as they are at the call.
key_send ==
    /\ UNCHANGED <<maxsize, serviceVars, startVars, mgrVars, enhVars, statVars,
                   errVars, compVars>>
    /\ wpc = "call"
    /\ carried' = hdr_key
    /\ wpc' = "inflight"
    /\ UNCHANGED <<now, state, queue, stop_event, pause_event, thread, cur, wake,
                   error_count, last_error_time, completed_tasks, failed_tasks,
                   callVars, taskVars, reqVars, rlVars, api_key, hdr_key, upc,
                   upd_k, lastReturned>>

\* Lines 169-175 and 109-116: the response has status 200, the result is
\* recorded and given to the callback.
key_response ==
    /\ UNCHANGED <<maxsize, serviceVars, extVars>>
    /\ wpc = "inflight"
    /\ execCount' = [execCount EXCEPT ![cur] = @ + 1]
    /\ lastOutcome' = [lastOutcome EXCEPT ![cur] = "success"]
    /\ cbSucc' = [cbSucc EXCEPT ![cur] = @ + 1]
    /\ HandleResult(TRUE)
    /\ cur' = NoTask
    /\ wpc' = "while"
    /\ UNCHANGED <<now, queue, stop_event, pause_event, thread, wake,
                   callVars, added, addAfterGet, retry_count, max_retries, req_n,
                   cbFail, histFail, requeueFull, reqPrio, rlVars>>

NextKey ==
    \/ start_check
    \/ start_spawn
    \/ \E t \in Submitted : add_task(t, NORMAL)
    \/ run_while
    \/ run_pause_wait
    \/ run_cooldown
    \/ run_get
    \/ run_get_empty
    \/ api_acquire
    \/ key_send
    \/ key_response
    \/ \E k \in Keys : uk_manager(k)
    \/ uk_api_key
    \/ uk_headers

SpecKey == InitApi /\ [][NextKey]_vars

(***************************************************************************)
(* A worker with on_task_error set, as in test_error_handling               *)
(* (src/test_workers_standalone.py): the handler returns a result, returns *)
(* None or raises; the worker is started, paused and resumed.              *)
(***************************************************************************)
\* Lines 152-182 of _run with the calls of on_task_error counted: line 163,
\* on_task_error(task, None), and line 177, on_task_error(None, e).
run_process_err(outcome) ==
    /\ UNCHANGED <<maxsize, serviceVars, startVars, mgrVars, enhVars, statVars,
                   keyVars, compVars>>
    /\ wpc = "process"
    /\ execCount' = [execCount EXCEPT ![cur] = @ + 1]
    /\ CASE outcome = "ok" ->
              /\ HandleResult(TRUE)
              /\ UNCHANGED <<raised, errorCalls>>
         [] outcome = "none" ->
              /\ HandleResult(FALSE)
              /\ errorCalls' = errorCalls + 1
              /\ UNCHANGED raised
         [] outcome = "raise" ->
              /\ HandleException
              /\ raised' = raised + 1
              /\ errorCalls' = errorCalls + 1
    /\ cur' = NoTask
    /\ wpc' = "while"
    /\ UNCHANGED <<now, queue, stop_event, pause_event, thread, wake,
                   callVars, added, addAfterGet, reqVars, rlVars>>

NextErr ==
    \/ Tick
    \/ start_check
    \/ start_spawn
    \/ pause
    \/ resume
    \/ \E t \in Submitted : add_task(t, NORMAL)
    \/ run_while
    \/ run_pause_wait
    \/ run_cooldown
    \/ run_sleep
    \/ run_get
    \/ run_get_empty
    \/ \E o \in {"ok", "none", "raise"} : run_process_err(o)

SpecErr == Init /\ [][NextErr]_vars

(***************************************************************************)
(* APIRequestWorker under load: requests for one image or for RL_RATE      *)
(* images (APIRequest.n is not checked), all of which succeed.             *)
(***************************************************************************)
RECURSIVE UnitsOf(_)
\* The image units of the executions of the requests of S.
UnitsOf(S) ==
    IF S = {} THEN 0
    ELSE LET t == CHOOSE u \in S : TRUE
         IN  execCount[t] * req_n[t] + UnitsOf(S \ {t})

\* The image units dispatched since the worker was constructed.
Units == UnitsOf(Tasks)

InitRate ==
    /\ InitBaseWorker(max_queue_size)
    /\ NoManager
    /\ retry_count = [t \in Tasks |-> 0]
    /\ max_retries = [t \in Tasks |-> 0]
    /\ req_n \in [Tasks -> {1, RL_RATE}]
    /\ cbSucc = [t \in Tasks |-> 0]
    /\ cbFail = [t \in Tasks |-> 0]
    /\ histFail = [t \in Tasks |-> 0]
    /\ requeueFull = [t \in Tasks |-> FALSE]
    /\ lastOutcome = [t \in Tasks |-> "none"]
    /\ reqPrio = [t \in Tasks |-> NORMAL]
    /\ InitLimiter(RL_RATE, RL_PER)
    /\ InitBucket
    /\ InitBreaker

NextRate ==
    \/ Tick
    \/ start_check
    \/ start_spawn
    \/ \E t \in Submitted : add_task(t, NORMAL)
    \/ run_while
    \/ run_pause_wait
    \/ run_cooldown
    \/ run_get
    \/ run_get_empty
    \/ api_acquire
    \/ api_rl_wake
    \/ api_call("success")

SpecRate == InitRate /\ [][NextRate]_vars

(***************************************************************************)
(* APIRequestWorker with the priority of every submission remembered, to   *)
(* compare it with the priority of the retry's re-queue.                   *)
(***************************************************************************)
\* add_task(request, priority) called by a submitter of a new request.
api_add_task(t, p) ==
    /\ AddTask(t, p)
    /\ reqPrio' = [reqPrio EXCEPT ![t] = p]
    /\ UNCHANGED <<retry_count, max_retries, req_n, cbSucc, cbFail, histFail,
                   requeueFull, lastOutcome>>

NextRetry ==
    \/ Tick
    \/ start_check
    \/ start_spawn
    \/ \E t \in Requests, p \in Priorities : api_add_task(t, p)
    \/ run_while
    \/ run_pause_wait
    \/ run_cooldown
    \/ run_get
    \/ run_get_empty
    \/ api_acquire
    \/ \E o \in {"success", "server_error"} : api_call(o)
    \/ api_requeue

SpecRetry == InitApi /\ [][NextRetry]_vars

(***************************************************************************)
(* A worker that keeps running: it is started, never paused or stopped,    *)
(* its handler returns, and several threads submit tasks while the loop    *)
(* thread, once alive, keeps being scheduled.                              *)
(***************************************************************************)
\* One step of the thread created by start(): the loop of _run.
LoopThread ==
    \/ run_while
    \/ run_pause_wait
    \/ run_cooldown
    \/ run_get
    \/ run_get_empty
    \/ \E o \in {"ok", "none"} : run_process(o)

NextSubmit ==
    \/ start_check
    \/ start_spawn
    \/ \E t \in Submitted, p \in Priorities : add_task(t, p)
    \/ LoopThread

SpecSubmit == Init /\ [][NextSubmit]_vars /\ WF_vars(LoopThread)

(***************************************************************************)
(* SettingsSyncWorker: the sync tasks, their callbacks, and                *)
(* WorkerManager.backup_and_export.                                        *)
(***************************************************************************)
\* SyncTask.operation, with the variants of the input that take different
\* paths: include_images for an export, a zip package for an import or a
\* restore.
SyncOps == {"export", "export_images", "import", "import_zip", "backup",
            "restore", "restore_zip", "validate"}

\* The callback a caller passes with its task.
CallerCallback == [kind |-> "caller", callback |-> FALSE, include_images |-> FALSE]

\* The priority of add_export_task, add_import_task, add_backup_task, and of
\* add_task for the operations that have no helper.
SyncPriority(op) ==
    CASE op \in {"import", "import_zip"} -> HIGH
      [] op = "backup" -> LOW
      [] OTHER -> NORMAL

\* The number of calls of task.callback made by the method that handles op
\* when it returns a result: _create_export_package and _import_package
\* return theirs without calling it.
CallsOnSuccess(op) ==
    IF op \in {"export_images", "import_zip", "restore_zip"} THEN 0 ELSE 1

\* The identifier of the next task created inside the worker thread.
NextExportId ==
    CHOOSE t \in Tasks \ Requests :
        added[t] = "no" /\ \A u \in Tasks \ Requests : u < t => added[u] # "no"

\* The backup_and_export calls made so far.
NumChains ==
    Cardinality({t \in DOMAIN sync_tasks :
                    sync_tasks[t].callback.kind = "on_backup_complete"})

\* SyncTask(operation, callback) followed by self.add_task(task, priority):
\* the queue and the tasks after it.
SyncPut(q, tasks, t, op, cb, from) ==
    /\ IF QueueFull(q)
          THEN /\ added' = [added EXCEPT ![t] = "refused"]
               /\ queue' = q
          ELSE /\ queue' = QueuePut(q, t, SyncPriority(op), now)
               /\ added' = [added EXCEPT ![t] = "accepted"]
    /\ sync_tasks' = (t :> [operation |-> op, callback |-> cb, from |-> from,
                            forwarded |-> 0]) @@ tasks

\* What no step of the settings worker's tasks changes.
syncFrame == <<now, maxsize, state, stop_event, pause_event, thread, wake,
               error_count, last_error_time, callVars, addAfterGet, retry_count,
               max_retries, req_n, histFail, requeueFull, reqPrio, rlVars,
               serviceVars, startVars, mgrVars, enhVars, statVars, keyVars,
               errVars, fleetVars, delay, histVars, uiVars>>

\* A caller submits a task with a callback of its own.
sync_add(t, op) ==
    /\ added[t] = "no"
    /\ \A u \in Requests : u < t => added[u] # "no"
    /\ SyncPut(queue, sync_tasks, t, op, CallerCallback, NoTask)
    /\ UNCHANGED <<syncFrame, wpc, cur, completed_tasks, failed_tasks, execCount,
                   cbSucc, cbFail, lastOutcome>>

\* WorkerManager.backup_and_export(export_path, include_images, callback):
\* create_backup(reason, callback=on_backup_complete). The identifiers left
\* for the export tasks bound the number of calls.
backup_and_export(t, include_images, callback) ==
    /\ added[t] = "no"
    /\ \A u \in Requests : u < t => added[u] # "no"
    /\ NumChains < NTasks - NRequests
    /\ SyncPut(queue, sync_tasks, t, "backup",
               [kind |-> "on_backup_complete", callback |-> callback,
                include_images |-> include_images], NoTask)
    /\ UNCHANGED <<syncFrame, wpc, cur, completed_tasks, failed_tasks, execCount,
                   cbSucc, cbFail, lastOutcome>>

\* Mutant: the export is requested whatever the result of the backup.
ExportAfter_Always(success) == TRUE

\* on_backup_complete, line 308: if result.get('success').
ExportAfter(success) == success

\* on_backup_complete(result), called in the worker thread as the callback
\* of the backup task b.
on_backup_complete(b, success) ==
    LET closure == sync_tasks[b].callback
    IN  IF ExportAfter(success)
           THEN SyncPut(queue, sync_tasks, NextExportId,
                        IF closure.include_images THEN "export_images" ELSE "export",
                        IF closure.callback THEN CallerCallback ELSE NoCallback,
                        b)
           ELSE /\ sync_tasks' = [sync_tasks EXCEPT ![b].forwarded =
                                     @ + (IF closure.callback THEN 1 ELSE 0)]
                /\ UNCHANGED <<queue, added>>

\* SettingsSyncWorker.process_task(task) inside _run: the method of the
\* operation returns its result (ok) or raises, in which case process_task
\* calls task.callback(error_result) and returns None.
sync_process(ok) ==
    /\ wpc = "process"
    /\ execCount' = [execCount EXCEPT ![cur] = @ + 1]
    /\ lastOutcome' = [lastOutcome EXCEPT ![cur] = IF ok THEN "success" ELSE "error"]
    /\ LET task_ == sync_tasks[cur]
           calls == IF task_.callback.kind = "none" THEN 0
                    ELSE IF ok THEN CallsOnSuccess(task_.operation) ELSE 1
       IN  /\ cbSucc' = [cbSucc EXCEPT ![cur] = @ + (IF ok THEN calls ELSE 0)]
           /\ cbFail' = [cbFail EXCEPT ![cur] = @ + (IF ok THEN 0 ELSE calls)]
           /\ IF task_.callback.kind = "on_backup_complete" /\ calls > 0
                 THEN on_backup_complete(cur, ok)
                 ELSE UNCHANGED <<queue, added, sync_tasks>>
    /\ HandleResult(ok)
    /\ cur' = NoTask
    /\ wpc' = "while"
    /\ UNCHANGED syncFrame

NextSync ==
    \/ start_check
    \/ start_spawn
    \/ \E t \in Requests, op \in SyncOps : sync_add(t, op)
    \/ \E t \in Requests, i, c \in BOOLEAN : backup_and_export(t, i, c)
    \/ run_while
    \/ run_pause_wait
    \/ run_cooldown
    \/ run_get
    \/ run_get_empty
    \/ \E ok \in BOOLEAN : sync_process(ok)

SpecSync == Init /\ [][NextSync]_vars

(***************************************************************************)
(* WorkerManager.start_all and stop_all(wait=True) over the three workers  *)
(* the manager owns, each with its state, its thread and its stop event.   *)
(***************************************************************************)
\* What no step of start_all, stop_all or of the owned workers changes.
fleetFrame == <<now, maxsize, workerVars, callVars, taskVars, reqVars, rlVars,
                serviceVars, startVars, mgrVars, enhVars, statVars, keyVars,
                errVars, sync_tasks, delay, histVars, uiVars>>

\* start_all() is called on the manager after its construction.
start_all ==
    /\ mpc.op = "idle"
    /\ mpc' = [op |-> "start_all", i |-> 1]
    /\ UNCHANGED <<wstate, wthread, wstop_event, fleetFrame>>

\* start_all(), lines 82-86: worker.start() of the next worker.
start_all_step ==
    /\ mpc.op = "start_all"
    /\ IF wstate[mpc.i] = "idle"
          THEN /\ wstate' = [wstate EXCEPT ![mpc.i] = "running"]
               /\ wstop_event' = [wstop_event EXCEPT ![mpc.i] = FALSE]
               /\ wthread' = [wthread EXCEPT ![mpc.i] = "alive"]
          ELSE UNCHANGED <<wstate, wstop_event, wthread>>
    /\ mpc' = IF mpc.i = Len(worker_names)
                 THEN [op |-> "ready", i |-> mpc.i]
                 ELSE [op |-> "start_all", i |-> mpc.i + 1]
    /\ UNCHANGED fleetFrame

\* pause_worker(name) and resume_worker(name), once the workers are started.
pause_worker(w) ==
    /\ mpc.op \notin {"idle", "start_all"}
    /\ wstate[w] = "running"
    /\ wstate' = [wstate EXCEPT ![w] = "paused"]
    /\ UNCHANGED <<wthread, wstop_event, mpc, fleetFrame>>

resume_worker(w) ==
    /\ mpc.op \notin {"idle", "start_all"}
    /\ wstate[w] = "paused"
    /\ wstate' = [wstate EXCEPT ![w] = "running"]
    /\ UNCHANGED <<wthread, wstop_event, mpc, fleetFrame>>

\* _run, lines 170-182: process_task has raised max_errors times and the
\* loop thread sets the state to ERROR. _handle_state_change then calls
\* stop(wait=False) and start(), which both return False in this state.
worker_error(w) ==
    /\ mpc.op \notin {"idle", "start_all"}
    /\ wthread[w] = "alive"
    /\ wstate' = [wstate EXCEPT ![w] = "error"]
    /\ UNCHANGED <<wthread, wstop_event, mpc, fleetFrame>>

\* _run, line 133: the loop thread finds the stop event set and ends.
worker_exit(w) ==
    /\ wthread[w] = "alive"
    /\ wstop_event[w]
    /\ wthread' = [wthread EXCEPT ![w] = "dead"]
    /\ UNCHANGED <<wstate, wstop_event, mpc, fleetFrame>>

\* stop_all(wait=True) is called once start_all() has returned.
stop_all ==
    /\ mpc.op = "ready"
    /\ mpc' = [op |-> "stop_all", i |-> 1]
    /\ UNCHANGED <<wstate, wthread, wstop_event, fleetFrame>>

\* stop_all goes on to the next worker, or returns after the last one.
StopAllNext ==
    IF mpc.i = Len(worker_names)
       THEN [op |-> "stopped", i |-> mpc.i]
       ELSE [op |-> "stop_all", i |-> mpc.i + 1]

\* stop_all(), lines 90-94: worker.stop(wait, timeout) of the next worker,
\* up to its join (base_worker.py lines 71-80).
stop_all_step ==
    /\ mpc.op = "stop_all"
    /\ IF wstate[mpc.i] \in {"running", "paused"}
          THEN /\ wstate' = [wstate EXCEPT ![mpc.i] = "stopped"]
               /\ wstop_event' = [wstop_event EXCEPT ![mpc.i] = TRUE]
               /\ mpc' = IF wthread[mpc.i] = "alive"
                            THEN [op |-> "join", i |-> mpc.i]
                            ELSE StopAllNext
          ELSE /\ mpc' = StopAllNext
               /\ UNCHANGED <<wstate, wstop_event>>
    /\ UNCHANGED <<wthread, fleetFrame>>

\* self.thread.join(timeout) returns: the thread has ended, or the timeout
\* has elapsed while the thread is still in its task.
stop_all_join ==
    /\ mpc.op = "join"
    /\ mpc' = StopAllNext
    /\ UNCHANGED <<wstate, wthread, wstop_event, fleetFrame>>

NextFleet ==
    \/ start_all
    \/ start_all_step
    \/ \E w \in DOMAIN worker_names : pause_worker(w)
    \/ \E w \in DOMAIN worker_names : resume_worker(w)
    \/ \E w \in DOMAIN worker_names : worker_error(w)
    \/ \E w \in DOMAIN worker_names : worker_exit(w)
    \/ stop_all
    \/ stop_all_step
    \/ stop_all_join

\* WorkerManager.__init__: _initialize_workers constructs the three workers.
InitFleet ==
    /\ InitWorker
    /\ wstate = [i \in DOMAIN worker_names |-> "idle"]
    /\ wthread = [i \in DOMAIN worker_names |-> "none"]
    /\ wstop_event = [i \in DOMAIN worker_names |-> FALSE]
    /\ mpc = [op |-> "idle", i |-> 0]
    /\ InitRequests
    /\ InitLimiter(RL_RATE, RL_PER)
    /\ InitBucket
    /\ InitBreaker

SpecFleet == InitFleet /\ [][NextFleet]_vars

(***************************************************************************)
(* The backoff of APIRequestWorker.process_task for requests that keep     *)
(* failing, for every max_retries up to MaxBackoffRetries.                 *)
(***************************************************************************)
\* APIRequest(max_retries=m) for each request.
InitBackoff ==
    /\ InitBaseWorker(api_max_queue_size)
    /\ NoManager
    /\ retry_count = [t \in Tasks |-> 0]
    /\ \E m \in [Requests -> 0..MaxBackoffRetries] :
          max_retries = [t \in Tasks |-> IF t \in Requests THEN m[t] ELSE 0]
    /\ req_n = [t \in Tasks |-> 1]
    /\ cbSucc = [t \in Tasks |-> 0]
    /\ cbFail = [t \in Tasks |-> 0]
    /\ histFail = [t \in Tasks |-> 0]
    /\ requeueFull = [t \in Tasks |-> FALSE]
    /\ lastOutcome = [t \in Tasks |-> "none"]
    /\ reqPrio = [t \in Tasks |-> NORMAL]
    /\ InitLimiter(RL_RATE, RL_PER)
    /\ InitBucket
    /\ InitBreaker

\* Lines 118-125: an attempt of request t has raised and is retried:
\* delay = self.retry_delays[...]; time.sleep(delay); request.retry_count += 1
retry_backoff(t) ==
    /\ MayRetry(t)
    /\ delay' = (t :> RetryDelay(t)) @@ delay
    /\ retry_count' = [retry_count EXCEPT ![t] = @ + 1]
    /\ UNCHANGED <<now, maxsize, workerVars, callVars, taskVars, max_retries, req_n,
                   cbSucc, cbFail, histFail, requeueFull, lastOutcome, reqPrio,
                   rlVars, serviceVars, startVars, mgrVars, enhVars, statVars,
                   keyVars, errVars, sync_tasks, fleetVars, histVars, uiVars>>

NextBackoff == \E t \in Requests : retry_backoff(t)

SpecBackoff == InitBackoff /\ [][NextBackoff]_vars

(***************************************************************************)
(* APIRequestWorker._record_request: the history of request outcomes.      *)
(***************************************************************************)
\* Mutant: the oldest records are kept instead of the most recent ones.
LastRecords_Oldest(h, n) == SubSeq(h, 1, n)

\* Line 298: self.request_history[-self.max_history:], for a list longer
\* than max_history.
LastRecords(h, n) == SubSeq(h, Len(h) - n + 1, Len(h))

\* Lines 294-298: the record is appended and the list cut to max_history.
RecordRequest(h, record) ==
    LET a == Append(h, record)
    IN  IF Len(a) > max_history THEN LastRecords(a, max_history) ELSE a

\* _record_request(request, result, success), called by the worker thread
\* at the end of an attempt; the record keeps success and retry_count.
record_request(success, rc) ==
    /\ Len(all_records) < MaxRecords
    /\ LET record == [success |-> success, retry_count |-> rc]
       IN  /\ request_history' = RecordRequest(request_history, record)
           /\ all_records' = Append(all_records, record)
    /\ UNCHANGED <<now, maxsize, workerVars, callVars, taskVars, reqVars, rlVars,
                   serviceVars, startVars, mgrVars, enhVars, statVars, keyVars,
                   errVars, sync_tasks, fleetVars, delay, uiVars>>

NextHistory == \E success \in BOOLEAN, rc \in 0..1 : record_request(success, rc)

SpecHistory == InitApi /\ [][NextHistory]_vars

(***************************************************************************)
(* KivyWorkerBridge: updates scheduled by worker threads and executed by   *)
(* _process_ui_updates on the main thread. The updates are property        *)
(* updates and callback updates for the callback id 'test'.                *)
(***************************************************************************)
\* What no step of the bridge changes.
uiFrame == <<now, maxsize, workerVars, callVars, taskVars, reqVars, rlVars,
             serviceVars, startVars, mgrVars, enhVars, statVars, keyVars,
             errVars, sync_tasks, fleetVars, delay, histVars>>

\* register_callback('test', callback)
register_callback ==
    /\ callbacks' = callbacks \cup {"test"}
    /\ UNCHANGED <<ui_update_queue, ui_ran, uiFrame>>

\* unregister_callback('test')
unregister_callback ==
    /\ callbacks' = callbacks \ {"test"}
    /\ UNCHANGED <<ui_update_queue, ui_ran, uiFrame>>

\* schedule_ui_update(update_type, ...): self.ui_update_queue.put(update)
schedule_ui_update(update_type) ==
    /\ Len(ui_update_queue) < MaxUpdates
    /\ ui_update_queue' = Append(ui_update_queue, update_type)
    /\ UNCHANGED <<callbacks, ui_ran, uiFrame>>

\* _execute_update calls self.callbacks[callback_id] for a callback update
\* whose id is registered.
Executes(update) == update = "callback" /\ "test" \in callbacks

\* _process_ui_updates(dt): the loop takes updates from the head of the
\* queue while there are some and processed < max_updates_per_frame.
process_ui_updates ==
    /\ LET n == Min(Len(ui_update_queue), max_updates_per_frame)
       IN  /\ ui_ran' = Cardinality({i \in 1..n : Executes(ui_update_queue[i])})
           /\ ui_update_queue' = SubSeq(ui_update_queue, n + 1, Len(ui_update_queue))
    /\ UNCHANGED <<callbacks, uiFrame>>

NextBridge ==
    \/ register_callback
    \/ unregister_callback
    \/ \E u \in {"property", "callback"} : schedule_ui_update(u)
    \/ process_ui_updates

SpecBridge == Init /\ [][NextBridge]_vars

(***************************************************************************)
(* Claims about BaseWorker.                                                *)
(***************************************************************************)
\* C3: when all add_task calls are made before anything is dequeued, every
\* dequeue returns a task that has a higher priority than every task left in
\* the queue, or the same priority and an earlier submission (tasks are
\* submitted in the order 1, 2, ...), whatever the clock returned.
C3_PriorityThenFifo ==
    [][~addAfterGet =>
          \A e \in queue \ queue' : \A f \in queue' :
              e.np < f.np \/ (e.np = f.np /\ e.task < f.task)]_vars

C10_StopReturnsAfterExit ==
    stopRet # "no" => (thread # "alive" /\ wpc # "process")

\* C10 amended: when stop(wait=True) has returned because its join
\* completed (not because the join timeout elapsed or because there was no
\* live thread to join), the worker thread has terminated, and no
\* process_task execution is running or starts afterwards.
C10_StopJoined ==
    stopRet = "joined" => (thread = "dead" /\ wpc = "exited" /\ cur = NoTask)

\* C10 witness: stop(wait=True) joined the thread while tasks were still
\* queued.
C10_Witness ==
    /\ stopRet = "joined"
    /\ stopAfterStart
    /\ queue # {}

(***************************************************************************)
(* Claims about APIRequestWorker.                                          *)
(***************************************************************************)
\* The request was accepted and is neither queued nor being processed.
Finished(t) ==
    /\ added[t] = "accepted"
    /\ cur # t
    /\ \A e \in queue : e.task # t

\* C1: retry_count never exceeds max_retries; a request all of whose attempts
\* failed and whose re-queues all found room has had at most 1 + max_retries
\* executions, no callback while it is queued or processed, and once it is
\* finished exactly 1 + max_retries executions, one failure callback and no
\* success callback.
C1_AlwaysFailing ==
    \A t \in Tasks :
        /\ retry_count[t] <= max_retries[t]
        /\ (cbSucc[t] = 0 /\ ~requeueFull[t]) =>
              /\ execCount[t] <= 1 + max_retries[t]
              /\ cbFail[t] = (IF Finished(t) THEN 1 ELSE 0)
              /\ histFail[t] = cbFail[t]
              /\ Finished(t) => execCount[t] = 1 + max_retries[t]

\* C1 witness: a request with max_retries = 2 failed three times and its
\* callback received the failure.
C1_Witness ==
    \E t \in Tasks :
        /\ max_retries[t] = 2
        /\ Finished(t)
        /\ execCount[t] = 3
        /\ cbFail[t] = 1
        /\ cbSucc[t] = 0

\* C2: a request is never finished (accepted, no longer queued, not being
\* processed) without its callback having been invoked exactly once.
C2_CallbackExactlyOnce ==
    \A t \in Tasks :
        /\ cbSucc[t] + cbFail[t] <= 1
        /\ Finished(t) => cbSucc[t] + cbFail[t] = 1

(***************************************************************************)
(* Claims about CircuitBreaker.                                            *)
(***************************************************************************)
\* C4: counting the failing calls completed since the breaker was CLOSED with
\* failure_count = 0 (and nothing else completed), the breaker is not OPEN
\* while fewer than failure_threshold have completed, and it is OPEN when the
\* failure_threshold-th completes.
C4_OpensAtThreshold ==
    [][/\ (consec' >= 0 /\ consec' < failure_threshold) => cb_state' = "closed"
       /\ (consec' = failure_threshold /\ consec = failure_threshold - 1)
             => cb_state' = "open"]_vars

\* C4 witness: exactly failure_threshold consecutive failures have opened
\* the breaker.
C4_Witness ==
    /\ consec = failure_threshold
    /\ cb_state = "open"
    /\ failure_count = failure_threshold

\* C5: a call made while the breaker is OPEN and no more than
\* recovery_timeout has elapsed since last_failure_time is rejected, invokes
\* no function and leaves state, failure_count and last_failure_time
\* unchanged.
C5_OpenRejects ==
    [][(nCalls' = nCalls + 1 /\ cb_state = "open"
          /\ now - last_failure_time <= recovery_timeout)
         => /\ lastCall' = "rejected"
            /\ cpc' = cpc
            /\ cb_state' = cb_state
            /\ failure_count' = failure_count
            /\ last_failure_time' = last_failure_time]_vars

\* C5 witness: a call was rejected exactly recovery_timeout after the last
\* failure.
C5_Witness ==
    /\ cb_state = "open"
    /\ lastCall = "rejected"
    /\ now - last_failure_time = recovery_timeout

\* C6: no call is admitted to its function while a HALF_OPEN trial call is
\* still running.
C6_SingleTrial ==
    \A t \in Threads : ~duringTrial[t]

C8_AcquireContract ==
    [][rl_calls' = rl_calls + 1 /\ rl_last_update' = now =>
         LET sum == rl_tokens + (now - rl_last_update) * rl_rate
             refilled == IF sum > rl_rate * rl_per THEN rl_rate * rl_per ELSE sum
             need == rl_cost' * rl_per
         IN  /\ refilled >= need => (rl_tokens' = refilled - need /\ rl_ret' = 0)
             /\ refilled < need => (rl_tokens' = refilled /\ rl_ret' > 0
                                    /\ rl_ret' = need - refilled)
             /\ (rl_immediate' /\ rl_calls' <= 5) => rl_ret' = 0
             /\ (rl_immediate' /\ rl_calls' = 6) => rl_ret' = 12 * rl_rate
             /\ (rl_cost' = 1 /\ (now - rl_last_update) * rl_rate >= rl_per)
                   => rl_ret' = 0]_vars

\* C8 witness: after five immediate unit acquires the sixth was answered
\* with a wait of 12 s.
C8_Witness ==
    /\ rl_immediate
    /\ rl_calls = 6
    /\ rl_ret = 12 * rl_rate
    /\ rl_tokens = 0

(***************************************************************************)
(* Claims about the states of BaseWorker.                                  *)
(***************************************************************************)
\* C11: whenever the worker loop dequeues a task (and starts its handler),
\* the worker's state is RUNNING.
C11_DequeueOnlyRunning ==
    [][(cur = NoTask /\ cur' # NoTask) => state = "running"]_vars

\* C12: an add_task call made while the state is STOPPED is refused and
\* leaves the queue unchanged; in every other state it is accepted whenever
\* the queue is not full.
C12_StoppedRefusesTasks ==
    [][\A t \in Tasks :
          (added[t] = "no" /\ added'[t] # "no") =>
              IF state = "stopped"
                 THEN added'[t] = "refused" /\ queue' = queue
                 ELSE Cardinality(queue) < maxsize => added'[t] = "accepted"]_vars

\* C13: once the state is STOPPED it never changes again.
C13_StoppedIsTerminal ==
    [][state = "stopped" => state' = "stopped"]_vars

\* C14: at most one loop thread is ever created for a worker, and at most one
\* call of start() returns True, also when several threads call start().
C14_SingleLoopThread ==
    /\ spawned <= 1
    /\ Cardinality({t \in Threads : spc[t] = "true"}) <= 1

\* C15: the queue never holds more than max_queue_size entries; an add_task
\* call returns at once, refused with the queue unchanged when the queue
\* holds max_queue_size entries, and otherwise accepted with exactly one
\* entry inserted.
C15_BoundedQueue ==
    [][/\ Cardinality(queue) <= maxsize
       /\ Cardinality(queue') <= maxsize
       /\ \A t \in Tasks :
            (added[t] = "no" /\ added'[t] # "no") =>
                IF Cardinality(queue) >= maxsize
                   THEN added'[t] = "refused" /\ queue' = queue
                   ELSE /\ added'[t] = "accepted"
                        /\ queue \subseteq queue'
                        /\ Cardinality(queue') = Cardinality(queue) + 1
                        /\ \A e \in queue' \ queue : e.task = t]_vars

\* C15 witness: an add_task call was refused by a full queue.
C15_Witness ==
    /\ Cardinality(queue) = maxsize
    /\ \E t \in Tasks : added[t] = "refused"

\* C16: a request whose operation fails with a client error has its failure
\* delivered to the callback in the same step, without backoff sleep and
\* without re-queue, and is never executed again.
C16_ClientErrorNotRetried ==
    [][\A t \in Tasks :
          /\ (execCount'[t] = execCount[t] + 1 /\ lastOutcome'[t] = "client_error")
                => (cbFail'[t] = cbFail[t] + 1 /\ wpc' # "backoff")
          /\ lastOutcome[t] = "client_error" => execCount'[t] = execCount[t]]_vars

(***************************************************************************)
(* Claims about WorkerManager.                                             *)
(***************************************************************************)
\* C17: once the manager's handler has run for a worker that entered ERROR,
\* the worker's state is RUNNING, its error_count is 0 and its loop thread is
\* alive.
C17_RecoveredToRunning ==
    [][recoveries' = recoveries + 1 =>
          (state' = "running" /\ error_count' = 0 /\ thread' = "alive")]_vars

\* C18: the manager performs at most one recovery (stop, error_count reset,
\* start) per worker.
C18_SingleRecovery ==
    recoveries <= 1

\* C25: for a worker owned by a WorkerManager, while the worker is in ERROR
\* and less than error_cooldown has elapsed since its last error, no task is
\* dequeued and the queue keeps its entries.
C25_ManagedCooldown ==
    [][(state = "error" /\ recoveries > 0
           /\ now - last_error_time < error_cooldown) =>
          (queue \subseteq queue' /\ ~(cur = NoTask /\ cur' # NoTask))]_vars

(***************************************************************************)
(* Claims about BaseWorkerEnhanced.                                        *)
(***************************************************************************)
\* The Futures whose outcome was delivered to the callbacks of the task x
\* (x.callback or x.error_callback) and, with x, to on_task_complete or
\* on_task_error.
DeliveredTo(x) == {f \in Tasks : handled[f] = x}

\* C19: the callbacks of a task are invoked at most once and only with the
\* outcome of the task's own Future, and on_task_complete / on_task_error
\* receive the task whose Future completed.
C19_OwnCallbackOnce ==
    \A x \in Tasks : DeliveredTo(x) \subseteq {x}

\* C20: a task whose timeout elapsed before process_task returned has the
\* outcome of a timeout, (False, None) after on_task_timeout, once its
\* Future is finished: never that of a success or of a generic error.
C20_TimeoutReported ==
    \A t \in Tasks :
        (timer[t] = "expired" /\ future[t] \in FutureDone) => future[t] = "timeout"

(***************************************************************************)
(* Claims about get_stats.                                                 *)
(***************************************************************************)
\* What holds of the worker's own values at every instant: a task that was
\* accepted is in the queue, in the hands of the loop, or counted once as
\* completed or failed.
StatsConservation ==
    Cardinality(queue) + completed_tasks + failed_tasks
        + (IF cur = NoTask THEN 0 ELSE 1) = Cardinality(Accepted)

\* C21: the dictionary get_stats() returned holds the values the worker had
\* at one single instant of the call: in particular its queue_size,
\* completed_tasks and failed_tasks add up to no more than the number of
\* tasks accepted so far, as they do at every instant.
C21_ConsistentSnapshot ==
    gpc = "returned" =>
        snap.queue_size + snap.completed_tasks + snap.failed_tasks
            <= Cardinality(Accepted)

(***************************************************************************)
(* Claims about update_api_key.                                            *)
(***************************************************************************)
\* C22: a request sent while no update_api_key call is in progress carries
\* the key of the last call that returned; one sent during a call carries
\* that key or the key being installed, never anything else; and a request
\* in flight keeps the key it was sent with.
C22_KeyUpdateAtomic ==
    [][/\ (wpc = "call" /\ wpc' = "inflight") =>
              carried' \in (IF upc = "idle" THEN {lastReturned}
                                            ELSE {lastReturned, upd_k})
       /\ (wpc = "inflight" /\ wpc' = "inflight") => carried' = carried]_vars

\* C22 witness: update_api_key has returned with a new key while a request
\* sent with the old key is still in flight.
C22_Witness ==
    /\ wpc = "inflight"
    /\ upc = "idle"
    /\ hdr_key = lastReturned
    /\ carried # hdr_key

\* C26: whenever the pause gate of a started worker is closed, its state is
\* PAUSED, the state in which resume() reopens the gate.
C26_ClosedGateIsPaused ==
    (thread = "alive" /\ ~pause_event) => state = "paused"

C24_ErrorAfterNExceptions ==
    [][/\ raised' = raised + 1 => errorCalls' = errorCalls + 1
       /\ (raised' = raised + 1 /\ raised' < max_errors) => state' = state
       /\ raised' >= max_errors => state' = "error"]_vars

\* C24 witness: max_errors tasks have raised, others have succeeded, and the
\* worker is in ERROR.
C24_Witness ==
    /\ raised = max_errors
    /\ completed_tasks > 0
    /\ state = "error"

(***************************************************************************)
(* Claims about the return of CircuitBreaker.call.                         *)
(***************************************************************************)
\* C27: when the HALF_OPEN trial call returns, the breaker is OPEN if the
\* call failed and CLOSED if it succeeded.
C27_TrialSettles ==
    [][\A t \in Threads :
          (trial = t /\ cpc[t] = "func" /\ cpc'[t] = "idle") =>
              cb_state' = (IF failure_count' = failure_count + 1 THEN "open"
                                                                  ELSE "closed")]_vars

\* C28: when a call returns successfully, a HALF_OPEN breaker becomes CLOSED
\* with failure_count 0, and a CLOSED breaker with failure_count above 0 has
\* it decremented by 1 and stays CLOSED; failure_count is never negative.
C28_SuccessRecovers ==
    [][/\ failure_count >= 0
       /\ failure_count' >= 0
       /\ \A t \in Threads :
             (cpc[t] = "func" /\ cpc'[t] = "idle"
                 /\ failure_count' # failure_count + 1) =>
                /\ cb_state = "half_open" =>
                      (cb_state' = "closed" /\ failure_count' = 0)
                /\ (cb_state = "closed" /\ failure_count > 0) =>
                      (cb_state' = "closed" /\ failure_count' = failure_count - 1)]_vars

\* C28 witness: a call has succeeded on a CLOSED breaker and left
\* failure_count above 0.
C28_Witness ==
    /\ consec = 0 - 1
    /\ cb_state = "closed"
    /\ failure_count > 0

(***************************************************************************)
(* Claims about the retry and the rate limit of APIRequestWorker.          *)
(***************************************************************************)
\* C29: the image units dispatched since the construction of the worker, at
\* time 1, never exceed the capacity of the bucket plus what it was refilled
\* with since: rate + (now - 1) * rate / per (both sides multiplied by per).
C29_RateBound ==
    Units * rl_per <= rl_rate * rl_per + (now - 1) * rl_rate

\* C30: the entry a retry puts back in the queue has a priority that is not
\* lower than the one the request was submitted with, and not lower than
\* HIGH, which puts it before every waiting LOW or NORMAL task.
C30_RequeueElevated ==
    [][\A e \in queue' \ queue :
          retry_count'[e.task] = retry_count[e.task] + 1 =>
              (0 - e.np >= reqPrio[e.task] /\ 0 - e.np >= HIGH)]_vars

\* C31: every execution of an outbound operation by the request worker is a
\* call of CircuitBreaker.call.
C31_ThroughBreaker ==
    [][(\E t \in Tasks : execCount'[t] = execCount[t] + 1) =>
          nCalls' = nCalls + 1]_vars

\* C32: an attempt that fails and is followed by a retry does not count as
\* a failed task (failed_tasks is incremented together with the call of
\* on_task_error, base_worker.py lines 161-163).
C32_RetryInvisible ==
    [][(\E t \in Tasks : retry_count'[t] = retry_count[t] + 1) =>
          failed_tasks' = failed_tasks]_vars

(***************************************************************************)
(* Claims about pause, resume and concurrent submission.                   *)
(***************************************************************************)
\* C33: a pause() or resume() call leaves the queue as it was, and between
\* a pause() and the following resume() no queued task leaves the queue:
\* the tasks queued before or during the pause wait for the resume.
C33_PauseKeepsQueue ==
    [][/\ (state # state' /\ {state, state'} = {"running", "paused"}) =>
              queue' = queue
       /\ (state = "paused" /\ state' = "paused") => queue \subseteq queue']_vars

\* C34: on a worker whose loop thread is alive and keeps running, every
\* add_task call that returned True leads to exactly one execution of the
\* task: its execution count becomes 1 and stays 1.
C34_AcceptedExecutedOnce ==
    \A t \in Submitted :
        (added[t] = "accepted" /\ thread = "alive") ~> [](execCount[t] = 1)

\* C34 witness: every submitted task was accepted, some of them while the
\* loop thread was already taking tasks, and each has been executed once.
C34_Witness ==
    /\ addAfterGet
    /\ \A t \in Submitted : added[t] = "accepted" /\ execCount[t] = 1

(***************************************************************************)
(* Claims about SettingsSyncWorker and backup_and_export.                  *)
(***************************************************************************)
\* C35: the processing of a sync task that carries a callback invokes the
\* callback exactly once.
C35_CallbackOnce ==
    [][\A t \in DOMAIN sync_tasks :
          (execCount'[t] = execCount[t] + 1 /\ sync_tasks[t].callback.kind # "none") =>
              cbSucc'[t] + cbFail'[t] = cbSucc[t] + cbFail[t] + 1]_vars

\* C36: an export task requested by backup_and_export is in the queue only
\* after the success result of its backup was delivered, and a backup of
\* backup_and_export that failed has enqueued no export and has passed one
\* failure result to the caller's callback if there is one.
C36_ExportAfterBackup ==
    /\ \A e \in queue :
          (e.task \in DOMAIN sync_tasks /\ sync_tasks[e.task].from # NoTask) =>
              /\ lastOutcome[sync_tasks[e.task].from] = "success"
              /\ cbSucc[sync_tasks[e.task].from] = 1
    /\ \A b \in DOMAIN sync_tasks :
          (sync_tasks[b].callback.kind = "on_backup_complete"
             /\ lastOutcome[b] = "error") =>
              /\ \A t \in DOMAIN sync_tasks : sync_tasks[t].from # b
              /\ sync_tasks[b].forwarded =
                     IF sync_tasks[b].callback.callback THEN 1 ELSE 0

\* C36 witness: one backup of backup_and_export has failed and its failure
\* was passed to the caller's callback, and the export that follows another
\* one is in the queue.
C36_Witness ==
    \E b1, b2 \in DOMAIN sync_tasks :
        /\ sync_tasks[b1].callback.kind = "on_backup_complete"
        /\ lastOutcome[b1] = "error"
        /\ sync_tasks[b1].forwarded = 1
        /\ \E e \in queue : sync_tasks[e.task].from = b2

(***************************************************************************)
(* Claims about start_all and stop_all.                                    *)
(***************************************************************************)
\* C37: when start_all() returns every owned worker is RUNNING with a live
\* thread, and when stop_all(wait=True) returns no owned worker has a live
\* thread or is RUNNING or PAUSED.
C37_FanOut ==
    [][/\ (mpc.op = "start_all" /\ mpc'.op = "ready") =>
              \A w \in DOMAIN worker_names :
                  wstate'[w] = "running" /\ wthread'[w] = "alive"
       /\ (mpc.op # "stopped" /\ mpc'.op = "stopped") =>
              \A w \in DOMAIN worker_names :
                  wthread'[w] # "alive" /\ wstate'[w] \notin {"running", "paused"}]_vars

(***************************************************************************)
(* Claims about the backoff schedule.                                      *)
(***************************************************************************)
\* C38: the delay slept before the retry that follows the failure number k
\* (k = 0, 1, 2, ...) of a request is the entry min(k, 2) of the schedule
\* 1, 2, 5: the index is inside the schedule, the delay is not below the
\* previous delay of the request and not above 5 seconds.
C38_BackoffSchedule ==
    [][\A t \in Tasks :
          retry_count'[t] # retry_count[t] =>
              LET k == retry_count[t]
              IN  /\ Min(k, 2) \in 0..(Len(retry_delays) - 1)
                  /\ delay'[t] = <<1, 2, 5>>[Min(k, 2) + 1]
                  /\ t \in DOMAIN delay => delay'[t] >= delay[t]
                  /\ delay'[t] <= 5]_vars

\* C38 witness: a request has been retried MaxBackoffRetries times, more
\* often than the schedule has entries, and its last delay was 5 seconds.
C38_Witness ==
    \E t \in Requests :
        /\ retry_count[t] = MaxBackoffRetries
        /\ retry_count[t] > Len(retry_delays)
        /\ t \in DOMAIN delay
        /\ delay[t] = 5

(***************************************************************************)
(* Claims about request_history.                                           *)
(***************************************************************************)
\* C39: after any sequence of recorded outcomes request_history holds at
\* most max_history records, and they are the most recent ones, in the
\* order in which they were recorded.
C39_BoundedHistory ==
    /\ Len(request_history) <= max_history
    /\ \E n \in 0..max_history :
          /\ n = Min(Len(all_records), max_history)
          /\ Len(request_history) = n
          /\ \A i \in 1..n :
                request_history[i] = all_records[Len(all_records) - n + i]

\* C39 witness: more than max_history + 1 outcomes were recorded, the first
\* of them a failure and the others successes, and the history is full.
C39_Witness ==
    /\ Len(all_records) > max_history + 1
    /\ Len(request_history) = max_history
    /\ ~all_records[1].success
    /\ \A i \in 2..Len(all_records) : all_records[i].success

(***************************************************************************)
(* Claims about KivyWorkerBridge.                                          *)
(***************************************************************************)
\* C40: a call of _process_ui_updates made while the callback is registered
\* executes every callback update that was scheduled before the call,
\* however many updates precede it in the queue.
C40_NextFrameRuns ==
    [][(Len(ui_update_queue') < Len(ui_update_queue) /\ "test" \in callbacks) =>
          ui_ran' = Cardinality({i \in DOMAIN ui_update_queue :
                                    ui_update_queue[i] = "callback"})]_vars

====
